---- MODULE Spec2Model ----
(***************************************************************************)
(* The probe runner (Runner.Run, runSingle, parseIPObservation) and the    *)
(* diagnostic analyzer (Analyze and its helpers) of pkg/ipv6test.          *)
(*                                                                         *)
(* Spec:        one call of Run, probe by probe, and Analyze of its result. *)
(* SpecAnalyze: Analyze of any RunResult a caller can build.               *)
(* SpecScores:  expandTokens and computeScores of any list of token codes. *)
(* SpecRuns:    interleaved and successive calls of Run on one Runner.     *)
(*                                                                         *)
(* Durations are counted in ticks; Milliseconds() divides by TicksPerMs.   *)
(* A nil *IpObservation is the record NilIP (nil = TRUE).                  *)
(***************************************************************************)
EXTENDS Naturals, Integers, Sequences, FiniteSets, TLC

(***************************************************************************)
(* Bounds of the model.                                                    *)
(***************************************************************************)
\* Longest non-empty list of test names a request carries.
MaxTests == 2
\* Departures from the nominal configuration, request and network behaviour
\* (an endpoint left out, an override, a failure, a non-200 code, a slow
\* answer, a body with an observation, a cancellation) in one run of a
\* requested list of tests, and in one run of the default eight.
MaxVaried == 2
DefaultVaried == 1
\* Longest elapsed time of one request, in ticks.
MaxElapsed == 3
\* Ticks per millisecond (time.Duration.Milliseconds truncates).
TicksPerMs == 2
\* The Runner's configured slow threshold and timeout, in ticks.
CfgSlowThreshold == 2
CfgTimeout == 4

(***************************************************************************)
(* Types (analyzer.go, second file of the concatenation: TestName, Status, *)
(* IpObservation, TestResult, RunRequest, RunResult).                      *)
(***************************************************************************)
TestIPv4DNS == "ipv4_dns"
TestIPv6DNS == "ipv6_dns"
TestDualStack == "dual_stack"
TestDualStackMTU == "dual_stack_mtu"
TestIPv6MTU == "ipv6_mtu"
TestDNSV6Resolver == "dns_v6_resolver"
TestASNLookupV4 == "asn_v4"
TestASNLookupV6 == "asn_v6"

StatusOK == "ok"
StatusSlow == "slow"
StatusBad == "bad"
StatusTimeout == "timeout"
StatusSkipped == "skipped"
StatusError == "error"

Statuses == {StatusOK, StatusSlow, StatusBad, StatusTimeout, StatusSkipped, StatusError}

\* The eight tests Run executes when the request names none, in this order.
DefaultTests ==
  << TestIPv4DNS, TestIPv6DNS, TestDualStack, TestDualStackMTU,
     TestIPv6MTU, TestDNSV6Resolver, TestASNLookupV4, TestASNLookupV6 >>

ProbeNames == { DefaultTests[k] : k \in 1..Len(DefaultTests) }

\* defaultPacketSize
DefaultPacketSize == 1600

\* A nil *IpObservation.
NilIP == [nil |-> TRUE, IP |-> "", Type |-> "", Subtype |-> ""]

\* &IpObservation{IP: ip, Type: ty, Subtype: sub}
Obs(ip, ty, sub) == [nil |-> FALSE, IP |-> ip, Type |-> ty, Subtype |-> sub]

\* The zero TestResult with a name and a status.
TestResult(name, status) ==
  [ Name |-> name, Status |-> status, TimeMs |-> 0, URL |-> "",
    PacketSize |-> 0, IP |-> NilIP, Notes |-> "", HTTPStatusCode |-> 0,
    Error |-> "", Duration |-> 0 ]

\* time.Duration.Milliseconds
Milliseconds(d) == d \div TicksPerMs

(***************************************************************************)
(* The environment's alphabet.                                             *)
(***************************************************************************)
\* A name the endpoint map never holds (the CLI passes any string through).
UnknownTest == "client_info"

RequestNames == ProbeNames \cup {UnknownTest}

\* The names the requested lists are drawn from.
ListNames == {TestIPv4DNS, TestDualStack, UnknownTest}

\* What an Options.Endpoints entry can be: a URL, the empty string, a string
\* http.NewRequestWithContext rejects, or no entry at all.
URLOf(tn) == "https://" \o tn
MalformedURL == "https://bad host/"
NoEntry == "<no entry>"
NewRequestError == "parse \"https://bad host/\": invalid character \" \" in host name"


\* Errors client.Do returns.
ErrDeadline == "context deadline exceeded"
ErrCanceled == "context canceled"
ErrClientTimeout == "context deadline exceeded (Client.Timeout exceeded while awaiting headers)"
ErrRefused == "dial tcp: connect: connection refused"

\* errors.Is(err, context.DeadlineExceeded) || errors.Is(err, context.Canceled)
IsDeadlineOrCanceled(e) == e \in {ErrDeadline, ErrCanceled, ErrClientTimeout}

\* HTTP status codes around the two ends of [200,400).
Codes == {199, 200, 399, 400}

Addr4a == "192.0.2.1"
Addr4b == "198.51.100.7"
Addr6a == "2001:db8::1"
Addr6b == "2001:0:53aa:64c::1"

\* The JSON objects a body can carry (ip, type, subtype).
BodyObjects ==
  { Obs(Addr4a, "ipv4", ""), Obs(Addr4b, "ipv4", ""), Obs("", "ipv4", ""),
    Obs(Addr6a, "ipv6", ""), Obs(Addr6b, "ipv6", "Teredo"), Obs("", "ipv6", ""),
    Obs(Addr4a, "", ""), Obs("", "", "") }

\* A response body: a JSON object, bare or wrapped as callback({...});, or
\* text that holds no JSON object.
NominalBody == [wrapped |-> FALSE, json |-> FALSE, obj |-> Obs("", "", "")]

Bodies == {NominalBody} \cup [ wrapped : BOOLEAN, json : {TRUE}, obj : BodyObjects ]

\* The elapsed time of a request that is neither fast nor slow: the configured
\* slow threshold itself.
NominalElapsed == CfgSlowThreshold

\* What client.Do can return under the caller's context state and the client's
\* timeout: an error, or a response's status line after `elapsed` ticks.
DoError(text, elapsed) == [kind |-> "err", text |-> text, code |-> 0, elapsed |-> elapsed]
DoResponse(code, elapsed) == [kind |-> "resp", text |-> "", code |-> code, elapsed |-> elapsed]

DoOutcomes(ctx, timeout) ==
  IF ctx # ""
    THEN { DoError(ctx, e) : e \in 1..MaxElapsed }
    ELSE { DoError(t, e) : t \in {ErrDeadline, ErrRefused},
                          e \in { d \in 1..MaxElapsed : timeout = 0 \/ d < timeout } }
         \cup { DoResponse(c, e) : c \in Codes,
                          e \in { d \in 1..MaxElapsed : timeout = 0 \/ d < timeout } }
         \cup { DoError(ErrClientTimeout, timeout) : x \in { y \in {1} : timeout \in 1..MaxElapsed } }

NominalDo(ctx, timeout) ==
  IF ctx # "" THEN DoError(ctx, NominalElapsed)
  ELSE IF timeout > 0 /\ NominalElapsed >= timeout THEN DoError(ErrClientTimeout, timeout)
  ELSE DoResponse(200, NominalElapsed)

\* The number of ways an outcome departs from the nominal one.
DoCost(o, ctx, timeout) ==
  LET n == NominalDo(ctx, timeout)
  IN  (IF o.kind # n.kind \/ o.text # n.text \/ o.code # n.code THEN 1 ELSE 0)
      + (IF o.elapsed # n.elapsed THEN 1 ELSE 0)

BodyCost(b) == IF b = NominalBody THEN 0 ELSE 1

(***************************************************************************)
(* parseIPObservation.                                                     *)
(***************************************************************************)
\* json.Unmarshal(body, &ipObs) == nil: the whole body is one JSON object.
UnmarshalOK(b) == b.json /\ ~b.wrapped

\* The span from the first '{' to the last '}' exists and decodes.
BraceSpanOK(b) == b.json

Usable(o) == o.IP # "" \/ o.Type # ""

parseIPObservation(b) ==
  IF UnmarshalOK(b) /\ Usable(b.obj) THEN b.obj
  ELSE IF BraceSpanOK(b) /\ Usable(b.obj) THEN b.obj
  ELSE NilIP

(***************************************************************************)
(* Runner.runSingle, in the three stretches that the request separates:    *)
(* up to client.Do, client.Do's return, and the body read to the return.   *)
(***************************************************************************)
\* url, ok := opts.Endpoints[tn]; !ok || url == ""
NoEndpoint(o, tn) == o.Endpoints[tn] = NoEntry \/ o.Endpoints[tn] = ""

\* http.NewRequestWithContext fails.
NewRequestFails(o, tn) == o.Endpoints[tn] = MalformedURL

runSingleSkipped(tn) ==
  [ TestResult(tn, StatusSkipped) EXCEPT !.Notes = "no endpoint configured" ]

runSingleBadRequest(o, tn) ==
  [ TestResult(tn, StatusError) EXCEPT !.Error = NewRequestError, !.URL = o.Endpoints[tn] ]

\* tr := TestResult{Name, URL, PacketSize, Duration, TimeMs}
runSingleTimed(o, tn, duration) ==
  [ TestResult(tn, "") EXCEPT !.URL = o.Endpoints[tn], !.PacketSize = o.PacketSize,
                              !.Duration = duration, !.TimeMs = Milliseconds(duration) ]

\* if err != nil { ... }
runSingleFailed(o, tn, out) ==
  [ runSingleTimed(o, tn, out.elapsed) EXCEPT
      !.Status = IF IsDeadlineOrCanceled(out.text) THEN StatusTimeout ELSE StatusError,
      !.Error = out.text ]

\* tr.HTTPStatusCode = resp.StatusCode
runSingleHeaders(o, tn, out) ==
  [ runSingleTimed(o, tn, out.elapsed) EXCEPT !.HTTPStatusCode = out.code ]

\* The threshold itself counted as slow.
IsSlowAtThreshold(duration, threshold) == duration >= threshold

\* duration > opts.SlowThreshold
IsSlow(duration, threshold) == duration > threshold

\* resp.StatusCode >= 200 && resp.StatusCode < 400
IsSuccessCode(code) == code >= 200 /\ code < 400

\* The body is read and parsed, then the status is classified.
runSingleClassify(o, t, body) ==
  LET withIP == [ t EXCEPT !.IP = parseIPObservation(body) ]
  IN  IF IsSuccessCode(t.HTTPStatusCode)
        THEN [ withIP EXCEPT !.Status = IF IsSlow(t.Duration, o.SlowThreshold)
                                          THEN StatusSlow ELSE StatusOK ]
        ELSE [ withIP EXCEPT !.Status = StatusBad,
                             !.Error = "http status " \o ToString(t.HTTPStatusCode) ]

(***************************************************************************)
(* Runner.Run.                                                             *)
(***************************************************************************)
\* opts := r.options, with the request's overrides.
EffectiveOptions(o, r) ==
  [ o EXCEPT !.Timeout = IF r.Timeout > 0 THEN r.Timeout ELSE @,
             !.SlowThreshold = IF r.SlowThreshold > 0 THEN r.SlowThreshold ELSE @,
             !.PacketSize = IF r.PacketSizeBytes > 0 THEN r.PacketSizeBytes ELSE @ ]

\* Run without its default: an empty request runs nothing.
TestsToRunNoDefault(r) == r.Tests

\* tests := req.Tests, or the fixed eight.
TestsToRun(r) == IF Len(r.Tests) = 0 THEN DefaultTests ELSE r.Tests

\* result := RunResult{RunID, StartedAt, SlowThresholdMs, TimeoutMs, PacketSizeBytes}
NewRunResult(o, id) ==
  [ RunID |-> id, DurationMs |-> 0, IPv4 |-> NilIP, IPv6 |-> NilIP, Results |-> << >>,
    SlowThresholdMs |-> Milliseconds(o.SlowThreshold),
    TimeoutMs |-> Milliseconds(o.Timeout),
    PacketSizeBytes |-> o.PacketSize ]

\* The loop body after runSingle returns: append, then first-seen aggregation.
Collect(res, t) ==
  [ res EXCEPT
      !.Results = Append(@, t),
      !.IPv4 = IF ~t.IP.nil /\ t.IP.Type = "ipv4" /\ @.nil THEN t.IP ELSE @,
      !.IPv6 = IF ~t.IP.nil /\ t.IP.Type = "ipv6" /\ @.nil THEN t.IP ELSE @ ]

RECURSIVE SumDurations(_)
SumDurations(rs) == IF rs = << >> THEN 0 ELSE Head(rs).Duration + SumDurations(Tail(rs))

(***************************************************************************)
(* The analyzer's static tables: scoreTable, messageTable, moreInfoTable.   *)
(***************************************************************************)
intGreen == 1
intRed == 2
intBlue == 3
intOrange == 4

\* token :> << transition score, strict score, color code >>
scoreTable ==
     ("6to4" :> << 7, 7, intBlue >>)
  @@ ("teredo" :> << 7, 7, intBlue >>)
  @@ ("teredo-v4pref" :> << 10, 7, intBlue >>)
  @@ ("teredo-minimum" :> << 10, 0, intBlue >>)
  @@ ("IPv6 MTU" :> << 1, 1, intRed >>)
  @@ ("dualstack:ipv4_preferred" :> << 10, 10, intGreen >>)
  @@ ("dualstack:ipv6_preferred" :> << 10, 10, intGreen >>)
  @@ ("dualstack:slow" :> << 7, 7, intBlue >>)
  @@ ("ipv4_only" :> << 10, 0, intBlue >>)
  @@ ("ipv4_only:ds_good" :> << 10, 0, intBlue >>)
  @@ ("ipv4_only:ds_slow" :> << 5, 0, intRed >>)
  @@ ("ipv4_only:ds_timeout" :> << 5, 0, intRed >>)
  @@ ("ipv4_slow" :> << 5, 10, intRed >>)
  @@ ("ipv6_only" :> << 0, 10, intBlue >>)
  @@ ("ipv6_slow" :> << 10, 5, intRed >>)
  @@ ("ipv6_timeout" :> << 10, 0, intRed >>)
  @@ ("ipv6:nodns" :> << 10, 0, intRed >>)
  @@ ("broken_ipv6" :> << 0, 0, intRed >>)
  @@ ("webfilter:blocked" :> << -1, -1, intOrange >>)
  @@ ("webfilter:dsboth" :> << 10, 10, intOrange >>)
  @@ ("webfilter:addons" :> << 10, 10, intOrange >>)
  @@ ("webfilter:firefox" :> << 10, 10, intOrange >>)
  @@ ("v6ns:ok" :> << 10, 10, intGreen >>)
  @@ ("v6ns:bad" :> << 10, 9, intBlue >>)
  @@ ("ip_timeout:firefox" :> << 10, 10, intRed >>)
  @@ ("ipv4:no_address" :> << 10, 10, intBlue >>)
  @@ ("ipv6:no_address" :> << 10, 10, intRed >>)
  @@ ("no_address" :> << 10, 10, intRed >>)
  @@ ("dualstack:safe" :> << 10, 10, intGreen >>)
  @@ ("needs_ipv6" :> << 10, 10, intBlue >>)
  @@ ("dualstack:unsafe" :> << 10, 10, intRed >>)
  @@ ("dualstack:mtu" :> << 10, 10, intRed >>)
  @@ ("proxy_via" :> << 10, 10, intOrange >>)
  @@ ("proxy_via_dumb" :> << 10, 10, intOrange >>)
  @@ ("broken" :> << 0, 0, intBlue >>)
  @@ ("avoids_ipv6" :> << 10, 10, intOrange >>)

messageTable ==
     ("6to4" :> "You appear to be using a public 6to4 gateway; performance may suffer. Native IPv6 is preferred.")
  @@ ("teredo" :> "Your IPv6 connection appears to be using Teredo, a public IPv4/IPv6 gateway; quality may suffer.")
  @@ ("teredo-v4pref" :> "Your IPv6 connection uses Teredo as a last resort; IPv4 will be preferred on dual-stack sites.")
  @@ ("teredo-minimum" :> "Your IPv6 connection uses Teredo and only works to literal IPs; not useful for browsing IPv6 sites.")
  @@ ("IPv6 MTU" :> "IPv6 works but large packets fail; check MTU and allow ICMPv6 Packet Too Big.")
  @@ ("dualstack:ipv4_preferred" :> "Dual-stack reachable; browser prefers IPv4.")
  @@ ("dualstack:ipv6_preferred" :> "Dual-stack reachable; browser prefers IPv6.")
  @@ ("dualstack:slow" :> "Dual-stack reachable but browser slows down when both families are offered.")
  @@ ("ipv4_only" :> "You appear to be able to browse the IPv4 Internet only. You will not be able to reach IPv6-only sites.")
  @@ ("ipv4_only:ds_good" :> "When a publisher offers both IPv4 and IPv6, your browser takes IPv4 without delay.")
  @@ ("ipv4_only:ds_slow" :> "When a publisher offers both IPv4 and IPv6, your browser is slower than IPv4-only sites.")
  @@ ("ipv4_only:ds_timeout" :> "When a publisher offers both IPv4 and IPv6, your browser times out trying to connect.")
  @@ ("ipv4_slow" :> "Connections to IPv4 are slow, but functional.")
  @@ ("ipv6_only" :> "You appear to be able to browse the IPv6 Internet only. You have no access to IPv4.")
  @@ ("ipv6_slow" :> "Connections to IPv6 are slow, but functional.")
  @@ ("ipv6_timeout" :> "Connections to IPv6-only sites are timing out.")
  @@ ("ipv6:nodns" :> "IPv6 connections work, but DNS lookups do not use IPv6 (no AAAA).")
  @@ ("broken_ipv6" :> "You appear to have IPv6 configured, but it completely fails for IPv6 sites.")
  @@ ("webfilter:blocked" :> "Tests appear blocked by a firewall or browser filter; critical tests failed.")
  @@ ("webfilter:dsboth" :> "Dual-stack tests appear blocked by a browser or network filter.")
  @@ ("webfilter:addons" :> "Browser blocked test URLs; alternate methods may be incomplete.")
  @@ ("webfilter:firefox" :> "Likely a Firefox add-on (e.g., NoScript/AdBlock) blocked tests.")
  @@ ("v6ns:ok" :> "Your DNS server appears to have IPv6 Internet access.")
  @@ ("v6ns:bad" :> "Your DNS server appears to have no IPv6 Internet access or is not configured to use it.")
  @@ ("ip_timeout:firefox" :> "Firefox add-on likely caused IP-based tests to fail.")
  @@ ("ipv4:no_address" :> "No IPv4 address detected.")
  @@ ("ipv6:no_address" :> "No IPv6 address detected.")
  @@ ("no_address" :> "IP addresses could not be detected due to interference from browser add-ons.")
  @@ ("dualstack:safe" :> "Good news! Your current configuration will continue to work as sites enable IPv6.")
  @@ ("needs_ipv6" :> "To ensure the best Internet performance and connectivity, ask your ISP about native IPv6.")
  @@ ("dualstack:unsafe" :> "Our tests show dual-stack readiness is unsafe; IPv6 may cause problems.")
  @@ ("dualstack:mtu" :> "MTU issues detected; IPv6-only sites may fail or load slowly.")
  @@ ("proxy_via" :> "A proxy was detected; tests reflect the proxy, not the local host.")
  @@ ("proxy_via_dumb" :> "A proxy was detected; tests reflect the proxy, not the local host.")
  @@ ("broken" :> "We have suggestions to help you fix your system.")
  @@ ("avoids_ipv6" :> "Browser has working IPv6 but is avoiding using it; this is concerning.")

moreInfoTable ==
     ("ipv6:no_address" :> "faq_no_ipv6.html")
  @@ ("needs_ipv6" :> "faq_no_ipv6.html")
  @@ ("6to4" :> "faq_6to4.html")
  @@ ("teredo-minimum" :> "faq_teredo_minimum.html")
  @@ ("v6ns:bad" :> "faq_v6ns_bad.html")
  @@ ("webfilter:blocked" :> "faq_browser_plugins.html")
  @@ ("webfilter:dsboth" :> "faq_browser_plugins.html")
  @@ ("webfilter:firefox" :> "faq_firefox_plugins.html")
  @@ ("webfilter:addons" :> "faq_browser_plugins.html")
  @@ ("ip_timeout:firefox" :> "faq_firefox_plugins.html")
  @@ ("ipv6:nodns" :> "faq_broken_aaaa.html")
  @@ ("avoids_ipv6" :> "faq_avoids_ipv6.html")

\* The bytes of the strings that are compared with <.
StringBytes ==
     ("6to4" :> << 54, 116, 111, 52 >>)
  @@ ("teredo" :> << 116, 101, 114, 101, 100, 111 >>)
  @@ ("teredo-v4pref" :> << 116, 101, 114, 101, 100, 111, 45, 118, 52, 112, 114, 101, 102 >>)
  @@ ("teredo-minimum" :> << 116, 101, 114, 101, 100, 111, 45, 109, 105, 110, 105, 109, 117, 109 >>)
  @@ ("IPv6 MTU" :> << 73, 80, 118, 54, 32, 77, 84, 85 >>)
  @@ ("dualstack:ipv4_preferred" :> << 100, 117, 97, 108, 115, 116, 97, 99, 107, 58, 105, 112, 118, 52, 95, 112, 114, 101, 102, 101, 114, 114, 101, 100 >>)
  @@ ("dualstack:ipv6_preferred" :> << 100, 117, 97, 108, 115, 116, 97, 99, 107, 58, 105, 112, 118, 54, 95, 112, 114, 101, 102, 101, 114, 114, 101, 100 >>)
  @@ ("dualstack:slow" :> << 100, 117, 97, 108, 115, 116, 97, 99, 107, 58, 115, 108, 111, 119 >>)
  @@ ("ipv4_only" :> << 105, 112, 118, 52, 95, 111, 110, 108, 121 >>)
  @@ ("ipv4_only:ds_good" :> << 105, 112, 118, 52, 95, 111, 110, 108, 121, 58, 100, 115, 95, 103, 111, 111, 100 >>)
  @@ ("ipv4_only:ds_slow" :> << 105, 112, 118, 52, 95, 111, 110, 108, 121, 58, 100, 115, 95, 115, 108, 111, 119 >>)
  @@ ("ipv4_only:ds_timeout" :> << 105, 112, 118, 52, 95, 111, 110, 108, 121, 58, 100, 115, 95, 116, 105, 109, 101, 111, 117, 116 >>)
  @@ ("ipv4_slow" :> << 105, 112, 118, 52, 95, 115, 108, 111, 119 >>)
  @@ ("ipv6_only" :> << 105, 112, 118, 54, 95, 111, 110, 108, 121 >>)
  @@ ("ipv6_slow" :> << 105, 112, 118, 54, 95, 115, 108, 111, 119 >>)
  @@ ("ipv6_timeout" :> << 105, 112, 118, 54, 95, 116, 105, 109, 101, 111, 117, 116 >>)
  @@ ("ipv6:nodns" :> << 105, 112, 118, 54, 58, 110, 111, 100, 110, 115 >>)
  @@ ("broken_ipv6" :> << 98, 114, 111, 107, 101, 110, 95, 105, 112, 118, 54 >>)
  @@ ("webfilter:blocked" :> << 119, 101, 98, 102, 105, 108, 116, 101, 114, 58, 98, 108, 111, 99, 107, 101, 100 >>)
  @@ ("webfilter:dsboth" :> << 119, 101, 98, 102, 105, 108, 116, 101, 114, 58, 100, 115, 98, 111, 116, 104 >>)
  @@ ("webfilter:addons" :> << 119, 101, 98, 102, 105, 108, 116, 101, 114, 58, 97, 100, 100, 111, 110, 115 >>)
  @@ ("webfilter:firefox" :> << 119, 101, 98, 102, 105, 108, 116, 101, 114, 58, 102, 105, 114, 101, 102, 111, 120 >>)
  @@ ("v6ns:ok" :> << 118, 54, 110, 115, 58, 111, 107 >>)
  @@ ("v6ns:bad" :> << 118, 54, 110, 115, 58, 98, 97, 100 >>)
  @@ ("ip_timeout:firefox" :> << 105, 112, 95, 116, 105, 109, 101, 111, 117, 116, 58, 102, 105, 114, 101, 102, 111, 120 >>)
  @@ ("ipv4:no_address" :> << 105, 112, 118, 52, 58, 110, 111, 95, 97, 100, 100, 114, 101, 115, 115 >>)
  @@ ("ipv6:no_address" :> << 105, 112, 118, 54, 58, 110, 111, 95, 97, 100, 100, 114, 101, 115, 115 >>)
  @@ ("no_address" :> << 110, 111, 95, 97, 100, 100, 114, 101, 115, 115 >>)
  @@ ("dualstack:safe" :> << 100, 117, 97, 108, 115, 116, 97, 99, 107, 58, 115, 97, 102, 101 >>)
  @@ ("needs_ipv6" :> << 110, 101, 101, 100, 115, 95, 105, 112, 118, 54 >>)
  @@ ("dualstack:unsafe" :> << 100, 117, 97, 108, 115, 116, 97, 99, 107, 58, 117, 110, 115, 97, 102, 101 >>)
  @@ ("dualstack:mtu" :> << 100, 117, 97, 108, 115, 116, 97, 99, 107, 58, 109, 116, 117 >>)
  @@ ("proxy_via" :> << 112, 114, 111, 120, 121, 95, 118, 105, 97 >>)
  @@ ("proxy_via_dumb" :> << 112, 114, 111, 120, 121, 95, 118, 105, 97, 95, 100, 117, 109, 98 >>)
  @@ ("broken" :> << 98, 114, 111, 107, 101, 110 >>)
  @@ ("avoids_ipv6" :> << 97, 118, 111, 105, 100, 115, 95, 105, 112, 118, 54 >>)

\* The bytes of the five status characters.
CharBytes == ("o" :> 111) @@ ("s" :> 115) @@ ("t" :> 116) @@ ("b" :> 98) @@ ("x" :> 120)

\* The bytes of a string: a token of the tables, or four status characters.
Bytes(str) ==
  IF str \in DOMAIN StringBytes THEN StringBytes[str]
  ELSE LET q == CHOOSE q \in [1..4 -> DOMAIN CharBytes] : q[1] \o q[2] \o q[3] \o q[4] = str
       IN  [ k \in 1..4 |-> CharBytes[q[k]] ]

\* Go's < on strings: bytewise, a proper prefix first.
RECURSIVE BytesLess(_, _)
BytesLess(x, y) ==
  IF y = << >> THEN FALSE
  ELSE IF x = << >> THEN TRUE
  ELSE IF Head(x) # Head(y) THEN Head(x) < Head(y)
  ELSE BytesLess(Tail(x), Tail(y))

StringLess(x, y) == x # y /\ BytesLess(Bytes(x), Bytes(y))

\* strings.ToLower on the type and subtype strings that occur.
ToLower(str) ==
  CASE str \in {"IPv6", "IPV6"} -> "ipv6"
    [] str \in {"IPv4", "IPV4"} -> "ipv4"
    [] str \in {"Teredo", "TEREDO"} -> "teredo"
    [] str = "6TO4" -> "6to4"
    [] OTHER -> str

\* strings.EqualFold
EqualFold(x, y) == ToLower(x) = ToLower(y)

(***************************************************************************)
(* The analyzer.                                                           *)
(***************************************************************************)
statusChar(st) ==
  CASE st = StatusOK -> "o"
    [] st = StatusSlow -> "s"
    [] st = StatusTimeout -> "t"
    [] st \in {StatusBad, StatusError} -> "b"
    [] st = StatusSkipped -> "x"
    [] OTHER -> "b"

\* statusIndex{}
EmptyIndex ==
  [ a |-> "", aaaa |-> "", ds4 |-> "", ds6 |-> "", v6mtu |-> "", dsmtu |-> "",
    v6ns |-> "", ipv4 |-> NilIP, ipv6 |-> NilIP ]

miniPrimary(st) ==
  statusChar(st.a) \o statusChar(st.aaaa) \o statusChar(st.ds4) \o statusChar(st.ds6)

miniSecondary(st) == statusChar(st.v6mtu) \o statusChar(st.v6ns)

\* The dual-stack case without the default of the other family's slot.
IndexDualStackNoDefault(idx, t) ==
  IF ~t.IP.nil /\ EqualFold(t.IP.Type, "ipv6")
    THEN [ idx EXCEPT !.ds6 = t.Status, !.ipv6 = IF @.nil THEN t.IP ELSE @ ]
    ELSE [ idx EXCEPT !.ds4 = t.Status,
                      !.ipv4 = IF ~t.IP.nil /\ t.IP.Type = "ipv4" /\ @.nil THEN t.IP ELSE @ ]

\* case TestDualStack: whichever family answered sets the matching slot.
\* The dual-stack case overwriting the other family's slot.
IndexDualStackOverwrite(idx, t) ==
  IF ~t.IP.nil /\ EqualFold(t.IP.Type, "ipv6")
    THEN [ idx EXCEPT !.ds6 = t.Status, !.ds4 = StatusBad,
                      !.ipv6 = IF @.nil THEN t.IP ELSE @ ]
    ELSE [ idx EXCEPT !.ds4 = t.Status, !.ds6 = StatusBad,
                      !.ipv4 = IF ~t.IP.nil /\ t.IP.Type = "ipv4" /\ @.nil THEN t.IP ELSE @ ]

IndexDualStack(idx, t) ==
  IF ~t.IP.nil /\ EqualFold(t.IP.Type, "ipv6")
    THEN [ idx EXCEPT !.ds6 = t.Status,
                      !.ds4 = IF @ = "" THEN StatusBad ELSE @,
                      !.ipv6 = IF @.nil THEN t.IP ELSE @ ]
    ELSE [ idx EXCEPT !.ds4 = t.Status,
                      !.ds6 = IF @ = "" THEN StatusBad ELSE @,
                      !.ipv4 = IF ~t.IP.nil /\ t.IP.Type = "ipv4" /\ @.nil THEN t.IP ELSE @ ]

\* The walk's turn with the dedicated probes overwriting the observation.
IndexResultDedicatedOverwrites(idx, t) ==
  CASE t.Name = TestIPv4DNS ->
         [ idx EXCEPT !.a = t.Status,
                      !.ipv4 = IF ~t.IP.nil /\ t.IP.Type = "ipv4" THEN t.IP ELSE @ ]
    [] t.Name = TestIPv6DNS ->
         [ idx EXCEPT !.aaaa = t.Status,
                      !.ipv6 = IF ~t.IP.nil /\ t.IP.Type = "ipv6" THEN t.IP ELSE @ ]
    [] t.Name = TestDualStack -> IndexDualStack(idx, t)
    [] t.Name = TestDualStackMTU -> [ idx EXCEPT !.dsmtu = t.Status ]
    [] t.Name = TestIPv6MTU -> [ idx EXCEPT !.v6mtu = t.Status ]
    [] t.Name = TestDNSV6Resolver -> [ idx EXCEPT !.v6ns = t.Status ]
    [] OTHER -> idx

\* One turn of buildStatusIndex's loop: the switch on tr.Name.
IndexResult(idx, t) ==
  CASE t.Name = TestIPv4DNS ->
         [ idx EXCEPT !.a = t.Status,
                      !.ipv4 = IF ~t.IP.nil /\ t.IP.Type = "ipv4" /\ @.nil THEN t.IP ELSE @ ]
    [] t.Name = TestIPv6DNS ->
         [ idx EXCEPT !.aaaa = t.Status,
                      !.ipv6 = IF ~t.IP.nil /\ t.IP.Type = "ipv6" /\ @.nil THEN t.IP ELSE @ ]
    [] t.Name = TestDualStack -> IndexDualStack(idx, t)
    [] t.Name = TestDualStackMTU -> [ idx EXCEPT !.dsmtu = t.Status ]
    [] t.Name = TestIPv6MTU -> [ idx EXCEPT !.v6mtu = t.Status ]
    [] t.Name = TestDNSV6Resolver -> [ idx EXCEPT !.v6ns = t.Status ]
    [] OTHER -> idx

RECURSIVE IndexResults(_, _)
IndexResults(idx, rs) ==
  IF rs = << >> THEN idx ELSE IndexResults(IndexResult(idx, Head(rs)), Tail(rs))

\* The run summary's addresses, where the walk found none.
IndexRunSummary(idx, res) ==
  [ idx EXCEPT !.ipv4 = IF ~res.IPv4.nil /\ @.nil THEN res.IPv4 ELSE @,
               !.ipv6 = IF ~res.IPv6.nil /\ @.nil THEN res.IPv6 ELSE @ ]

\* Unset statuses default to skipped.
OrSkipped(st) == IF st = "" THEN StatusSkipped ELSE st

\* The defaults without the two dual-stack slots.
IndexDefaultsNoDualStack(idx) ==
  [ idx EXCEPT !.a = OrSkipped(@), !.aaaa = OrSkipped(@), !.v6mtu = OrSkipped(@),
               !.dsmtu = OrSkipped(@), !.v6ns = OrSkipped(@) ]

IndexDefaults(idx) ==
  [ idx EXCEPT !.a = OrSkipped(@), !.aaaa = OrSkipped(@), !.ds4 = OrSkipped(@),
               !.ds6 = OrSkipped(@), !.v6mtu = OrSkipped(@), !.dsmtu = OrSkipped(@),
               !.v6ns = OrSkipped(@) ]

buildStatusIndex(res) ==
  IndexDefaults(IndexRunSummary(IndexResults(EmptyIndex, res.Results), res))

isTunnelType(ip, name) == IF ip.nil THEN FALSE ELSE EqualFold(ip.Subtype, name)

isTunnel(ip) == isTunnelType(ip, "Teredo") \/ isTunnelType(ip, "6to4")

isGood(st) == st = StatusOK \/ st = StatusSlow

isBadish(st) == st = StatusBad \/ st = StatusTimeout \/ st = StatusError

hasIPv4(st) == ~st.ipv4.nil /\ st.ipv4.IP # ""
hasIPv6(st) == ~st.ipv6.nil /\ st.ipv6.IP # ""

\* The address rule silent when no address at all is known.
AddressTokensSilent(st) ==
  IF ~hasIPv4(st) /\ ~hasIPv6(st) THEN << >>
  ELSE IF ~hasIPv4(st) THEN << "ipv4:no_address" >>
  ELSE IF ~hasIPv6(st) THEN << "ipv6:no_address" >>
  ELSE << >>

\* The address rule naming the family that is present.
AddressTokensSwapped(st) ==
  IF ~hasIPv4(st) /\ ~hasIPv6(st) THEN << "no_address" >>
  ELSE IF ~hasIPv4(st) THEN << "ipv6:no_address" >>
  ELSE IF ~hasIPv6(st) THEN << "ipv4:no_address" >>
  ELSE << >>

\* No address fallbacks.
AddressTokens(st) ==
  IF ~hasIPv4(st) /\ ~hasIPv6(st) THEN << "no_address" >>
  ELSE IF ~hasIPv4(st) THEN << "ipv4:no_address" >>
  ELSE IF ~hasIPv6(st) THEN << "ipv6:no_address" >>
  ELSE << >>

\* The bucket rules as independent ifs instead of one switch.
BucketTokensIndependent(st) ==
  (IF hasIPv4(st) THEN << "ipv4_only:ds_good", "ipv4_only" >> ELSE << >>)
  \o (IF hasIPv6(st) THEN << "ipv6_only" >> ELSE << >>)
  \o (IF hasIPv4(st) /\ hasIPv6(st) THEN << "dualstack:safe" >> ELSE << >>)

\* The IPv4-only refinement reading the slot's status, error among the rest.
BucketTokensErrorGood(st) ==
  CASE hasIPv4(st) /\ ~hasIPv6(st) ->
         << CASE st.ds6 = StatusSlow -> "ipv4_only:ds_slow"
              [] st.ds6 \in {StatusTimeout, StatusBad} -> "ipv4_only:ds_timeout"
              [] OTHER -> "ipv4_only:ds_good",
            "ipv4_only" >>
    [] hasIPv6(st) /\ ~hasIPv4(st) -> << "ipv6_only" >>
    [] hasIPv4(st) /\ hasIPv6(st) ->
         IF statusChar(st.ds6) = "b" \/ statusChar(st.ds6) = "t"
           THEN << "avoids_ipv6" >> ELSE << "dualstack:safe" >>
    [] OTHER -> << >>

\* The both-families branch reading the slot's status, error among the rest.
BucketTokensBothErrorSafe(st) ==
  CASE hasIPv4(st) /\ ~hasIPv6(st) ->
         << CASE statusChar(st.ds6) = "s" -> "ipv4_only:ds_slow"
              [] statusChar(st.ds6) \in {"t", "b"} -> "ipv4_only:ds_timeout"
              [] OTHER -> "ipv4_only:ds_good",
            "ipv4_only" >>
    [] hasIPv6(st) /\ ~hasIPv4(st) -> << "ipv6_only" >>
    [] hasIPv4(st) /\ hasIPv6(st) ->
         IF st.ds6 = StatusBad \/ st.ds6 = StatusTimeout
           THEN << "avoids_ipv6" >> ELSE << "dualstack:safe" >>
    [] OTHER -> << >>

\* Primary connectivity buckets.
BucketTokens(st) ==
  CASE hasIPv4(st) /\ ~hasIPv6(st) ->
         << CASE statusChar(st.ds6) = "s" -> "ipv4_only:ds_slow"
              [] statusChar(st.ds6) \in {"t", "b"} -> "ipv4_only:ds_timeout"
              [] OTHER -> "ipv4_only:ds_good",
            "ipv4_only" >>
    [] hasIPv6(st) /\ ~hasIPv4(st) -> << "ipv6_only" >>
    [] hasIPv4(st) /\ hasIPv6(st) ->
         IF statusChar(st.ds6) = "b" \/ statusChar(st.ds6) = "t"
           THEN << "avoids_ipv6" >> ELSE << "dualstack:safe" >>
    [] OTHER -> << >>

\* The resolver rule asking for both dual-stack slots to be good.
ResolverTokensBothFamilies(st) ==
  IF (isGood(st.ds4) /\ isGood(st.ds6)) /\ st.v6ns # "" /\ st.v6ns # StatusSkipped
    THEN IF isGood(st.v6ns) THEN << "v6ns:ok" >> ELSE << "v6ns:bad" >>
    ELSE << >>

\* The resolver rule answering also for a skipped nameserver slot.
ResolverTokensSkippedToo(st) ==
  IF (isGood(st.ds4) \/ isGood(st.ds6)) /\ st.v6ns # ""
    THEN IF isGood(st.v6ns) THEN << "v6ns:ok" >> ELSE << "v6ns:bad" >>
    ELSE << >>

\* DNS v6 resolver.
ResolverTokens(st) ==
  IF (isGood(st.ds4) \/ isGood(st.ds6)) /\ st.v6ns # "" /\ st.v6ns # StatusSkipped
    THEN IF isGood(st.v6ns) THEN << "v6ns:ok" >> ELSE << "v6ns:bad" >>
    ELSE << >>

\* The MTU rule counting every status that is not ok or slow as unhealthy.
MTUTokensSkippedUnhealthy(st) ==
  IF isGood(st.aaaa) /\ (~isGood(st.v6mtu) \/ ~isGood(st.dsmtu))
    THEN << "IPv6 MTU" >> ELSE << >>

\* MTU problems.
MTUTokens(st) ==
  IF isGood(st.aaaa) /\ (isBadish(st.v6mtu) \/ isBadish(st.dsmtu))
    THEN << "IPv6 MTU" >> ELSE << >>

\* The rule with dualstack:unsafe wherever needs_ipv6 is not due.
NeedsTokensUnsafeOtherwise(st) ==
  IF (~hasIPv6(st) \/ isTunnel(st.ipv6)) /\ (isGood(st.dsmtu) \/ st.dsmtu = StatusSkipped)
    THEN << "needs_ipv6" >>
    ELSE IF ~isGood(st.dsmtu) /\ st.dsmtu # StatusSkipped
           THEN << "dualstack:unsafe" >> ELSE << >>

\* The rule encouraging IPv6 whatever the dual-stack-MTU slot.
NeedsTokensAlways(st) ==
  IF ~hasIPv6(st) \/ isTunnel(st.ipv6)
    THEN << "needs_ipv6" >>
    ELSE IF ~isGood(st.dsmtu) /\ st.dsmtu # StatusSkipped
           THEN << "dualstack:unsafe" >> ELSE << >>

\* Need IPv6 encouragement.
NeedsTokens(st) ==
  IF ~hasIPv6(st) \/ isTunnel(st.ipv6)
    THEN IF isGood(st.dsmtu) \/ st.dsmtu = StatusSkipped THEN << "needs_ipv6" >> ELSE << >>
    ELSE IF ~isGood(st.dsmtu) /\ st.dsmtu # StatusSkipped
           THEN << "dualstack:unsafe" >> ELSE << >>

\* The tunnel rule comparing the subtype exactly.
TunnelTokensExactCase(st) ==
  (IF ~st.ipv6.nil /\ st.ipv6.Subtype = "Teredo" THEN << "teredo" >> ELSE << >>)
  \o (IF ~st.ipv6.nil /\ st.ipv6.Subtype = "6to4" THEN << "6to4" >> ELSE << >>)

\* Tunnels.
TunnelTokens(st) ==
  (IF isTunnelType(st.ipv6, "Teredo") THEN << "teredo" >> ELSE << >>)
  \o (IF isTunnelType(st.ipv6, "6to4") THEN << "6to4" >> ELSE << >>)

\* deriveTokens consulting the run's packet size.
deriveTokensByPacketSize(res, st, primary, secondary) ==
  LET tokens == AddressTokens(st) \o BucketTokens(st) \o ResolverTokens(st)
                \o MTUTokens(st) \o NeedsTokens(st) \o TunnelTokens(st)
                \o (IF res.PacketSizeBytes # DefaultPacketSize
                      THEN << "dualstack:mtu" >> ELSE << >>)
  IN  IF Len(tokens) = 0 THEN << primary >> ELSE tokens

\* deriveTokens appending the fallback token unconditionally.
deriveTokensAlwaysFallback(res, st, primary, secondary) ==
  AddressTokens(st) \o BucketTokens(st) \o ResolverTokens(st)
  \o MTUTokens(st) \o NeedsTokens(st) \o TunnelTokens(st) \o << primary >>

\* deriveTokens testing for the fallback right after the address rule.
deriveTokensEarlyFallback(res, st, primary, secondary) ==
  (IF Len(AddressTokens(st)) = 0 THEN << primary >> ELSE AddressTokens(st))
  \o BucketTokens(st) \o ResolverTokens(st)
  \o MTUTokens(st) \o NeedsTokens(st) \o TunnelTokens(st)

deriveTokens(res, st, primary, secondary) ==
  LET tokens == AddressTokens(st) \o BucketTokens(st) \o ResolverTokens(st)
                \o MTUTokens(st) \o NeedsTokens(st) \o TunnelTokens(st)
  IN  IF Len(tokens) = 0 THEN << primary >> ELSE tokens

RECURSIVE dedupeFrom(_, _)
dedupeFrom(in, out) ==
  IF in = << >> THEN out
  ELSE IF \E k \in 1..Len(out) : out[k] = Head(in)
         THEN dedupeFrom(Tail(in), out)
         ELSE dedupeFrom(Tail(in), Append(out, Head(in)))

dedupe(in) == dedupeFrom(in, << >>)

colorName(code) ==
  CASE code = intGreen -> "GREEN"
    [] code = intRed -> "RED"
    [] code = intBlue -> "BLUE"
    [] code = intOrange -> "ORANGE"
    [] OTHER -> "YELLOW"

\* expandToken scoring a code outside the table 0/0.
expandTokenUnknownZero(t) ==
  IF t \notin DOMAIN scoreTable
    THEN [ Token |-> t, ScoreIPv4 |-> 0, ScoreIPv6 |-> 0, Color |-> "YELLOW",
           Message |-> "(unknown result code: " \o t \o ")", MoreInfo |-> "" ]
    ELSE [ Token |-> t, ScoreIPv4 |-> scoreTable[t][1], ScoreIPv6 |-> scoreTable[t][2],
           Color |-> colorName(scoreTable[t][3]),
           Message |-> IF t \in DOMAIN messageTable THEN messageTable[t] ELSE "",
           MoreInfo |-> IF t \in DOMAIN moreInfoTable THEN moreInfoTable[t] ELSE "" ]

\* One token's TokenDetail.
expandToken(t) ==
  IF t \notin DOMAIN scoreTable
    THEN [ Token |-> t, ScoreIPv4 |-> 10, ScoreIPv6 |-> 10, Color |-> "YELLOW",
           Message |-> "(unknown result code: " \o t \o ")", MoreInfo |-> "" ]
    ELSE [ Token |-> t, ScoreIPv4 |-> scoreTable[t][1], ScoreIPv6 |-> scoreTable[t][2],
           Color |-> colorName(scoreTable[t][3]),
           Message |-> IF t \in DOMAIN messageTable THEN messageTable[t] ELSE "",
           MoreInfo |-> IF t \in DOMAIN moreInfoTable THEN moreInfoTable[t] ELSE "" ]

\* sort.SliceStable by Token: each detail goes after the ones not greater.
RECURSIVE InsertStable(_, _)
InsertStable(d, sorted) ==
  IF sorted = << >> THEN << d >>
  ELSE IF StringLess(d.Token, Head(sorted).Token) THEN << d >> \o sorted
  ELSE << Head(sorted) >> \o InsertStable(d, Tail(sorted))

RECURSIVE SortStable(_, _)
SortStable(ds, sorted) ==
  IF ds = << >> THEN sorted ELSE SortStable(Tail(ds), InsertStable(Head(ds), sorted))

\* expandTokens returning the details in the order of the tokens.
expandTokensUnsorted(tokens) ==
  [ k \in 1..Len(tokens) |-> expandToken(tokens[k]) ]

expandTokens(tokens) ==
  SortStable([ k \in 1..Len(tokens) |-> expandToken(tokens[k]) ], << >>)

RECURSIVE MinFrom(_, _, _)
MinFrom(ds, field, least) ==
  IF ds = << >> THEN least
  ELSE MinFrom(Tail(ds), field, IF Head(ds)[field] < least THEN Head(ds)[field] ELSE least)

\* The score that stands for "no token lowered it".
ScoreUnset == 100

\* computeScore without the step that turns the unset score into -1.
computeScoreNoSentinel(ds, field) == MinFrom(ds, field, ScoreUnset)

computeScore(ds, field) ==
  LET least == MinFrom(ds, field, ScoreUnset)
  IN  IF least = ScoreUnset THEN -1 ELSE least

computeScores(ds) == << computeScore(ds, "ScoreIPv4"), computeScore(ds, "ScoreIPv6") >>

\* Analyze, up to its call of expandTokens.
DerivedTokens(res) ==
  LET status == buildStatusIndex(res)
  IN  dedupe(deriveTokens(res, status, miniPrimary(status), miniSecondary(status)))

Analyze(res) ==
  LET status == buildStatusIndex(res)
      details == expandTokens(DerivedTokens(res))
      scores == computeScores(details)
  IN  [ Tokens |-> details, ScoreTransition |-> scores[1], ScoreStrict |-> scores[2],
        MiniPrimary |-> miniPrimary(status), MiniSecondary |-> miniSecondary(status) ]

(***************************************************************************)
(* State.                                                                  *)
(***************************************************************************)
VARIABLES
  options,   \* Runner.options, as NewRunner stored them
  req,       \* the RunRequest of the call
  ctx,       \* the caller's context: "" while live, else its Err() text
  pc,        \* where Run stands
  opts,      \* Run's local copy of the options, overrides applied
  tests,     \* the tests Run iterates over
  next,      \* index in tests of the probe in turn
  tr,        \* runSingle's TestResult while its request is in flight
  result,    \* Run's RunResult
  err,       \* Run's returned error: "unset" until it returns, then "nil"
  varied,    \* departures from the nominal run so far
  tokens,    \* the token codes on their way to expandTokens
  analysis,  \* the Analysis the caller holds
  client,    \* Runner.client, as NewRunner built it
  runs       \* the calls of Run in progress on the one Runner, by caller

vars ==
  << options, req, ctx, pc, opts, tests, next, tr, result, err, varied, tokens, analysis,
     client, runs >>

analyzerVars == << tokens, analysis >>

\* The zero Analysis.
NoAnalysis ==
  [ Tokens |-> << >>, ScoreTransition |-> 0, ScoreStrict |-> 0,
    MiniPrimary |-> "", MiniSecondary |-> "" ]

NoResult == TestResult("", "")

\* c := &http.Client{Timeout: opts.Timeout}
NewRunnerClient(o) == [ Timeout |-> o.Timeout ]

\* The callers that may be inside Run on the one Runner at the same time.
RunIds == {"a", "b"}

\* A caller that has not called Run yet.
IdleRun(o) ==
  [ pc |-> "idle", begun |-> 0,
    req |-> [ Tests |-> << >>, Timeout |-> 0, SlowThreshold |-> 0, PacketSizeBytes |-> 0 ],
    opts |-> o, client |-> NewRunnerClient(o), next |-> 1, result |-> NewRunResult(o, 0) ]

\* Lists of test names a request can carry.
RECURSIVE ListsUpTo(_, _)
ListsUpTo(S, n) ==
  IF n = 0 THEN { << >> }
  ELSE LET shorter == ListsUpTo(S, n - 1)
       IN  shorter \cup { Append(l, x) : l \in { m \in shorter : Len(m) = n - 1 }, x \in S }

TestLists == ListsUpTo(ListNames, MaxTests)

Range(l) == { l[k] : k \in 1..Len(l) }

\* The departures a run of list l may hold.
RunBudget(l) == IF l = << >> THEN DefaultVaried ELSE MaxVaried

\* Endpoint maps: each probe among `names` has its URL, the empty string or a
\* URL that does not parse; at most `budget` of them have no URL; a name that
\* is no probe has no entry.
EndpointMaps(names, budget) ==
  { [ tn \in RequestNames |->
        IF tn = UnknownTest THEN NoEntry
        ELSE IF tn \in DOMAIN d THEN d[tn] ELSE URLOf(tn) ] :
      d \in UNION { [ odd -> {"", MalformedURL} ] :
                     odd \in { o \in SUBSET (names \ {UnknownTest}) : Cardinality(o) <= budget } } }

ConfigCost(o) == Cardinality({ tn \in ProbeNames : o.Endpoints[tn] # URLOf(tn) })

Overrides ==
  [ Timeout : 0..MaxElapsed, SlowThreshold : 0..MaxElapsed, PacketSizeBytes : {0, 1280} ]

RequestCost(r) ==
  (IF r.Timeout # 0 THEN 1 ELSE 0) + (IF r.SlowThreshold # 0 THEN 1 ELSE 0)
  + (IF r.PacketSizeBytes # 0 THEN 1 ELSE 0)

Init ==
  /\ \E l \in TestLists, o \in Overrides :
       /\ req = [ Tests |-> l, Timeout |-> o.Timeout, SlowThreshold |-> o.SlowThreshold,
                  PacketSizeBytes |-> o.PacketSizeBytes ]
       /\ \E ep \in EndpointMaps(Range(TestsToRun(req)), RunBudget(l)) :
            options = [ Endpoints |-> ep, Timeout |-> CfgTimeout,
                        SlowThreshold |-> CfgSlowThreshold, PacketSize |-> DefaultPacketSize ]
  /\ varied = ConfigCost(options) + RequestCost(req)
  /\ varied <= RunBudget(req.Tests)
  /\ ctx = ""
  /\ pc = "call"
  /\ opts = options
  /\ tests = << >>
  /\ next = 1
  /\ tr = NoResult
  /\ result = NewRunResult(options, 0)
  /\ err = "unset"
  /\ tokens = << >>
  /\ analysis = NoAnalysis
  /\ client = NewRunnerClient(options)
  /\ runs = [ i \in RunIds |-> IdleRun(options) ]

(***************************************************************************)
(* Actions.                                                                *)
(***************************************************************************)
\* Run, up to its loop.
RunBegin ==
  /\ pc = "call"
  /\ opts' = EffectiveOptions(options, req)
  /\ tests' = TestsToRun(req)
  /\ result' = NewRunResult(EffectiveOptions(options, req), 1)
  /\ next' = 1
  /\ pc' = "loop"
  /\ UNCHANGED << options, req, ctx, tr, err, varied, tokens, analysis, client, runs >>

\* runSingle returns before any request: no endpoint, or no valid request.
ProbeNoRequest ==
  /\ pc = "loop"
  /\ next <= Len(tests)
  /\ NoEndpoint(opts, tests[next]) \/ NewRequestFails(opts, tests[next])
  /\ result' = Collect(result,
                  IF NoEndpoint(opts, tests[next]) THEN runSingleSkipped(tests[next])
                  ELSE runSingleBadRequest(opts, tests[next]))
  /\ next' = next + 1
  /\ UNCHANGED << options, req, ctx, pc, opts, tests, tr, err, varied, tokens, analysis, client, runs >>

\* runSingle sends its request: client.Do is entered.
ProbeSend ==
  /\ pc = "loop"
  /\ next <= Len(tests)
  /\ ~NoEndpoint(opts, tests[next])
  /\ ~NewRequestFails(opts, tests[next])
  /\ pc' = "do"
  /\ UNCHANGED << options, req, ctx, opts, tests, next, tr, result, err, varied, tokens, analysis, client, runs >>

\* client.Do returns an error: runSingle returns a timeout or an error.
ProbeFail ==
  /\ pc = "do"
  /\ \E out \in DoOutcomes(ctx, opts.Timeout) :
       /\ out.kind = "err"
       /\ varied + DoCost(out, ctx, opts.Timeout) <= RunBudget(req.Tests)
       /\ varied' = varied + DoCost(out, ctx, opts.Timeout)
       /\ result' = Collect(result, runSingleFailed(opts, tests[next], out))
  /\ next' = next + 1
  /\ pc' = "loop"
  /\ UNCHANGED << options, req, ctx, opts, tests, tr, err, tokens, analysis, client, runs >>

\* client.Do returns a response: its body is still to be read.
ProbeRespond ==
  /\ pc = "do"
  /\ \E out \in DoOutcomes(ctx, opts.Timeout) :
       /\ out.kind = "resp"
       /\ varied + DoCost(out, ctx, opts.Timeout) <= RunBudget(req.Tests)
       /\ varied' = varied + DoCost(out, ctx, opts.Timeout)
       /\ tr' = runSingleHeaders(opts, tests[next], out)
  /\ pc' = "body"
  /\ UNCHANGED << options, req, ctx, opts, tests, next, result, err, tokens, analysis, client, runs >>

\* The body is read (its read error dropped), parsed, and the status classified.
ProbeFinish ==
  /\ pc = "body"
  /\ \E body \in Bodies :
       /\ varied + BodyCost(body) <= RunBudget(req.Tests)
       /\ varied' = varied + BodyCost(body)
       /\ result' = Collect(result, runSingleClassify(opts, tr, body))
  /\ tr' = NoResult
  /\ next' = next + 1
  /\ pc' = "loop"
  /\ UNCHANGED << options, req, ctx, opts, tests, err, tokens, analysis, client, runs >>

\* The caller cancels the context, or its deadline passes, during the run.
Cancel ==
  /\ pc \in {"loop", "do", "body"}
  /\ ctx = ""
  /\ varied < RunBudget(req.Tests)
  /\ varied' = varied + 1
  /\ ctx' \in {ErrCanceled, ErrDeadline}
  /\ UNCHANGED << options, req, pc, opts, tests, next, tr, result, err, tokens, analysis, client, runs >>

\* The loop is over: Run returns result, nil.
RunReturn ==
  /\ pc = "loop"
  /\ next > Len(tests)
  /\ result' = [ result EXCEPT !.DurationMs = Milliseconds(SumDurations(result.Results)) ]
  /\ err' = "nil"
  /\ pc' = "done"
  /\ UNCHANGED << options, req, ctx, opts, tests, next, tr, varied, tokens, analysis, client, runs >>

\* The caller hands Run's result to Analyze.
AnalyzeResult ==
  /\ pc = "done"
  /\ tokens' = DerivedTokens(result)
  /\ analysis' = Analyze(result)
  /\ pc' = "analyzed"
  /\ UNCHANGED << options, req, ctx, opts, tests, next, tr, result, err, varied, client, runs >>

Next ==
  \/ RunBegin
  \/ ProbeNoRequest
  \/ ProbeSend
  \/ ProbeFail
  \/ ProbeRespond
  \/ ProbeFinish
  \/ Cancel
  \/ RunReturn
  \/ AnalyzeResult

Spec == Init /\ [][Next]_vars

(***************************************************************************)
(* Analyze on any RunResult a caller can hand it.                          *)
(***************************************************************************)
\* A TestResult with an observation.
Entry(name, status, ip) == [ TestResult(name, status) EXCEPT !.IP = ip ]

\* The TestResults the lists are drawn from: every status on each test the
\* analyzer reads, the observations on the three tests it takes them from,
\* and a test it ignores.
ResultEntries ==
  { Entry(n, s, NilIP) :
      n \in {TestIPv4DNS, TestIPv6DNS, TestDualStackMTU, TestIPv6MTU, TestDNSV6Resolver},
      s \in Statuses }
  \cup { Entry(TestIPv4DNS, StatusOK, o) : o \in {Obs(Addr4a, "ipv4", ""), Obs("", "ipv4", "")} }
  \cup { Entry(TestIPv6DNS, StatusOK, o) :
           o \in {Obs(Addr6a, "ipv6", ""), Obs(Addr6b, "ipv6", "Teredo"),
                  Obs(Addr6b, "ipv6", "6to4")} }
  \cup { Entry(TestDualStack, s, o) :
           s \in Statuses,
           o \in {NilIP, Obs(Addr4b, "ipv4", ""), Obs(Addr6a, "ipv6", ""), Obs("", "ipv6", "")} }
  \cup { Entry(TestDualStack, StatusOK, Obs(Addr6a, "IPv6", "")),
         Entry(TestASNLookupV4, StatusOK, Obs(Addr4b, "ipv4", "")) }

\* Longest Results list, a set run-level observation counting as one result.
MaxResults == 3

NominalOptions ==
  [ Endpoints |-> [ tn \in RequestNames |-> IF tn = UnknownTest THEN NoEntry ELSE URLOf(tn) ],
    Timeout |-> CfgTimeout, SlowThreshold |-> CfgSlowThreshold,
    PacketSize |-> DefaultPacketSize ]

NominalRequest == [ Tests |-> << >>, Timeout |-> 0, SlowThreshold |-> 0, PacketSizeBytes |-> 0 ]

SetCount(ip) == IF ip.nil THEN 0 ELSE 1

\* The run-level observations a RunResult can carry.
RunLevelIPv4 == {NilIP, Obs(Addr4b, "ipv4", "")}
RunLevelIPv6 ==
  {NilIP, Obs(Addr6b, "ipv6", "Teredo"), Obs(Addr6b, "ipv6", "TEREDO"),
   Obs(Addr6b, "ipv6", "6TO4")}

\* Any short Results list, with any run-level observations.
ShortRunResult ==
  \E n \in 0..MaxResults, i4 \in RunLevelIPv4, i6 \in RunLevelIPv6 :
    /\ n + SetCount(i4) + SetCount(i6) <= MaxResults
    /\ \E l \in [ 1..n -> ResultEntries ] :
         result = [ NewRunResult(NominalOptions, 1) EXCEPT
                      !.Results = l, !.IPv4 = i4, !.IPv6 = i6 ]

\* The results of a run of the fixed eight in which every probe is ok, the
\* IPv4-only probe observes an IPv4 address and the IPv6-only and dual-stack
\* probes an IPv6 address.
FullRunResults ==
  << Entry(TestIPv4DNS, StatusOK, Obs(Addr4a, "ipv4", "")),
     Entry(TestIPv6DNS, StatusOK, Obs(Addr6a, "ipv6", "")),
     Entry(TestDualStack, StatusOK, Obs(Addr6a, "ipv6", "")),
     Entry(TestDualStackMTU, StatusOK, NilIP),
     Entry(TestIPv6MTU, StatusOK, NilIP),
     Entry(TestDNSV6Resolver, StatusOK, NilIP),
     Entry(TestASNLookupV4, StatusOK, Obs(Addr4b, "ipv4", "")),
     Entry(TestASNLookupV6, StatusOK, NilIP) >>

\* Run's loop over results already made: the RunResult that holds them.
RECURSIVE CollectAll(_, _)
CollectAll(res, rs) ==
  IF rs = << >> THEN res ELSE CollectAll(Collect(res, Head(rs)), Tail(rs))

\* The RunResult of such a run, or of one in which at most DefaultVaried
\* probes ended otherwise.
FullRunResult ==
  \E odd \in SUBSET (1..Len(FullRunResults)) :
    /\ Cardinality(odd) <= DefaultVaried
    /\ \E f \in [ odd -> ResultEntries ] :
         /\ \A k \in odd : f[k].Name = FullRunResults[k].Name
         /\ result = CollectAll(NewRunResult(NominalOptions, 1),
                                [ k \in 1..Len(FullRunResults) |->
                                    IF k \in odd THEN f[k] ELSE FullRunResults[k] ])

\* The RunResult of a run of the fixed eight in which every probe failed, each
\* as bad, timeout or error, and none carried an observation.
FailedRunResult ==
  \E f \in [ 1..Len(DefaultTests) -> {StatusBad, StatusTimeout, StatusError} ] :
    result = CollectAll(NewRunResult(NominalOptions, 1),
                        [ k \in 1..Len(DefaultTests) |-> Entry(DefaultTests[k], f[k], NilIP) ])

InitAnalyze ==
  /\ ShortRunResult \/ FullRunResult \/ FailedRunResult
  /\ options = NominalOptions
  /\ req = NominalRequest
  /\ opts = NominalOptions
  /\ ctx = ""
  /\ pc = "done"
  /\ tests = << >>
  /\ next = 1
  /\ tr = NoResult
  /\ err = "nil"
  /\ varied = 0
  /\ tokens = << >>
  /\ analysis = NoAnalysis
  /\ client = NewRunnerClient(options)
  /\ runs = [ i \in RunIds |-> IdleRun(options) ]

NextAnalyze == AnalyzeResult

SpecAnalyze == InitAnalyze /\ [][NextAnalyze]_vars

(***************************************************************************)
(* expandTokens and computeScores on any list of distinct token codes.     *)
(***************************************************************************)
\* Longest list of token codes.
MaxTokens == 2

\* A code the tables do not hold: a miniPrimary string.
UnknownToken == "xxxx"

TokenCodes == DOMAIN scoreTable \cup {UnknownToken}

TokenLists ==
  { l \in ListsUpTo(TokenCodes, MaxTokens) : \A i, j \in 1..Len(l) : l[i] = l[j] => i = j }

InitScores ==
  /\ tokens \in TokenLists
  /\ result = NewRunResult(NominalOptions, 1)
  /\ options = NominalOptions
  /\ req = NominalRequest
  /\ opts = NominalOptions
  /\ ctx = ""
  /\ pc = "tokens"
  /\ tests = << >>
  /\ next = 1
  /\ tr = NoResult
  /\ err = "nil"
  /\ varied = 0
  /\ analysis = NoAnalysis
  /\ client = NewRunnerClient(options)
  /\ runs = [ i \in RunIds |-> IdleRun(options) ]

\* Analyze, from its call of expandTokens on.
ExpandAndScore ==
  /\ pc = "tokens"
  /\ analysis' = [ NoAnalysis EXCEPT !.Tokens = expandTokens(tokens),
                                     !.ScoreTransition = computeScores(expandTokens(tokens))[1],
                                     !.ScoreStrict = computeScores(expandTokens(tokens))[2] ]
  /\ pc' = "analyzed"
  /\ UNCHANGED << options, req, ctx, opts, tests, next, tr, result, err, varied, tokens, client, runs >>

NextScores == ExpandAndScore

SpecScores == InitScores /\ [][NextScores]_vars

(***************************************************************************)
(* Concurrent and successive calls of Run on one Runner.  Each caller of   *)
(* RunIds calls Run up to MaxRuns times; the calls interleave probe by     *)
(* probe.  Run's locals (opts, client, result) are the caller's own; the   *)
(* Runner's options and client are the shared part.                        *)
(***************************************************************************)
\* Calls of Run per caller.
MaxRuns == 2

\* The test list of these calls.
RunsTests == << TestIPv4DNS >>

\* The requests of these calls: any timeout and slow threshold override.
RunsRequests ==
  [ Tests : {RunsTests}, Timeout : 0..MaxElapsed, SlowThreshold : 0..MaxElapsed,
    PacketSizeBytes : {0} ]

\* client.Do's outcomes in these calls: a 200 response within the client's
\* timeout, or the client's timeout.
RunsOutcomes(timeout) ==
  { o \in DoOutcomes("", timeout) :
      IF o.kind = "resp" THEN o.code = 200 ELSE o.text = ErrClientTimeout }

\* Runner.options after Run's override block, had opts aliased r.options.
StoredOptionsAliased(o, r) == EffectiveOptions(o, r)

\* Runner.options after Run's override block: opts := r.options copied the
\* struct, the overrides went to the copy, Endpoints is only read.
StoredOptions(o, r) == o

\* Runner.client after `client := *r.client; client.Timeout = opts.Timeout`:
\* the assignment went to the copy.
StoredClient(c, o) == c

\* Run's own client.
RunClient(c, o) == [ c EXCEPT !.Timeout = o.Timeout ]

InitRuns ==
  /\ options = NominalOptions
  /\ req = NominalRequest
  /\ opts = NominalOptions
  /\ ctx = ""
  /\ pc = "runs"
  /\ tests = << >>
  /\ next = 1
  /\ tr = NoResult
  /\ result = NewRunResult(NominalOptions, 0)
  /\ err = "unset"
  /\ varied = 0
  /\ tokens = << >>
  /\ analysis = NoAnalysis
  /\ client = NewRunnerClient(options)
  /\ runs = [ i \in RunIds |-> IdleRun(options) ]

\* Caller i enters Run: the options copy, the overrides, the client copy and
\* the fresh RunResult.
RunsBegin(i) ==
  /\ runs[i].pc \in {"idle", "returned"}
  /\ runs[i].begun < MaxRuns
  /\ \E rq \in RunsRequests :
       LET o == EffectiveOptions(options, rq)
       IN  /\ runs' = [ runs EXCEPT ![i] =
                          [ pc |-> "loop", begun |-> runs[i].begun + 1, req |-> rq,
                            opts |-> o, client |-> RunClient(client, o), next |-> 1,
                            result |-> NewRunResult(o, 1) ] ]
           /\ options' = StoredOptions(options, rq)
           /\ client' = StoredClient(client, o)
  /\ UNCHANGED << req, ctx, pc, opts, tests, next, tr, result, err, varied, tokens, analysis >>

\* Caller i's Run takes one turn of its loop: runSingle with the call's own
\* client and options, then the append.
RunsProbe(i) ==
  /\ runs[i].pc = "loop"
  /\ runs[i].next <= Len(TestsToRun(runs[i].req))
  /\ \E out \in RunsOutcomes(runs[i].client.Timeout) :
       LET tn == TestsToRun(runs[i].req)[runs[i].next]
           t == IF out.kind = "err"
                  THEN runSingleFailed(runs[i].opts, tn, out)
                  ELSE runSingleClassify(runs[i].opts,
                                         runSingleHeaders(runs[i].opts, tn, out), NominalBody)
       IN  runs' = [ runs EXCEPT ![i].result = Collect(@, t), ![i].next = @ + 1 ]
  /\ UNCHANGED << options, req, ctx, pc, opts, tests, next, tr, result, err, varied, tokens, analysis, client >>

\* Caller i's Run returns.
RunsReturn(i) ==
  /\ runs[i].pc = "loop"
  /\ runs[i].next > Len(TestsToRun(runs[i].req))
  /\ runs' = [ runs EXCEPT ![i].pc = "returned",
                           ![i].result.DurationMs = Milliseconds(SumDurations(runs[i].result.Results)) ]
  /\ UNCHANGED << options, req, ctx, pc, opts, tests, next, tr, result, err, varied, tokens, analysis, client >>

NextRuns == \E i \in RunIds : RunsBegin(i) \/ RunsProbe(i) \/ RunsReturn(i)

SpecRuns == InitRuns /\ [][NextRuns]_vars

(***************************************************************************)
(* Properties of Run (specification Spec).                                 *)
(***************************************************************************)
Returned == pc \in {"done", "analyzed"}

\* The probes to run: the requested list, or the fixed eight.
ProbesToRun ==
  IF req.Tests # << >> THEN req.Tests
  ELSE << "ipv4_dns", "ipv6_dns", "dual_stack", "dual_stack_mtu",
          "ipv6_mtu", "dns_v6_resolver", "asn_v4", "asn_v6" >>

ResultNames == [ k \in 1..Len(result.Results) |-> result.Results[k].Name ]

\* C1: Run returns a nil error and exactly one result per probe to run, with
\* the same names in the same order (the requested list, or the fixed eight
\* when the request names none); while it runs, the results so far are those
\* of the probes before the one in turn, so no outcome of a probe stops or
\* removes a later probe; Run never holds a non-nil error.
C1_RunCompletes ==
  /\ err \in {"unset", "nil"}
  /\ pc # "call" => ResultNames = SubSeq(ProbesToRun, 1, next - 1)
  /\ Returned => err = "nil" /\ ResultNames = ProbesToRun

\* A returned run of the fixed eight in which a probe failed and the probes
\* after it still have their results.
C1_Witness ==
  /\ pc = "done"
  /\ req.Tests = << >>
  /\ Len(result.Results) = 8
  /\ \E k \in 1..7 : result.Results[k].Status \in {StatusError, StatusTimeout}

\* The status the classification table gives a result, from what the result
\* records of its request: the endpoint, the HTTP status code (0: no response),
\* the error text and the elapsed time.
Classified(t) ==
  LET url == opts.Endpoints[t.Name]
  IN  IF url = "" \/ url = NoEntry THEN t.Status = "skipped"
      ELSE IF t.HTTPStatusCode = 0
        THEN IF t.Error \in {ErrDeadline, ErrCanceled, ErrClientTimeout}
               THEN t.Status = "timeout"
               ELSE t.Status = "error" /\ t.Error # ""
      ELSE IF t.HTTPStatusCode >= 200 /\ t.HTTPStatusCode < 400
        THEN IF t.Duration <= opts.SlowThreshold
               THEN t.Status = "ok" ELSE t.Status = "slow"
      ELSE t.Status = "bad" /\ t.Error = "http status " \o ToString(t.HTTPStatusCode)

\* C2: every probe result's Status is the one of the classification table: no
\* endpoint => skipped; a failure by deadline or cancellation => timeout; any
\* other failure => error with its text; a code in [200,400) => ok when the
\* elapsed time is at most the slow threshold (equal is ok), else slow; any
\* other code => bad with "http status <code>"; the observation plays no part.
C2_Classification ==
  \A k \in 1..Len(result.Results) : Classified(result.Results[k])

\* Two results of one run answered in exactly the slow threshold, one with an
\* observation and one without, both ok.
C2_Witness ==
  \E j, k \in 1..Len(result.Results) :
    /\ result.Results[j].Status = "ok" /\ result.Results[k].Status = "ok"
    /\ result.Results[j].Duration = opts.SlowThreshold
    /\ result.Results[k].Duration = opts.SlowThreshold
    /\ ~result.Results[j].IP.nil
    /\ result.Results[k].IP.nil

\* The first observation among rs that names the family and carries an address.
RECURSIVE FirstAddress(_, _)
FirstAddress(rs, family) ==
  IF rs = << >> THEN NilIP
  ELSE IF ~Head(rs).IP.nil /\ Head(rs).IP.Type = family /\ Head(rs).IP.IP # ""
         THEN Head(rs).IP
         ELSE FirstAddress(Tail(rs), family)

\* Some result of rs carries an address of the family.
CarriesAddress(rs, family) == FirstAddress(rs, family) # NilIP

\* C4: after Run, the RunResult's IPv4 field (and likewise IPv6) holds the
\* first non-empty observation of that family in probe order (here: when some
\* probe carried an address of the family, also one that follows a probe whose
\* observation names the family without an address).
C4_FirstAddressOfFamily ==
  Returned =>
    /\ CarriesAddress(result.Results, "ipv4")
         => result.IPv4 = FirstAddress(result.Results, "ipv4")
    /\ CarriesAddress(result.Results, "ipv6")
         => result.IPv6 = FirstAddress(result.Results, "ipv6")

\* C5: when the caller's context is cancelled or its deadline passes while a
\* probe's request is in flight, that probe ends as timeout.
C5_InFlightProbeTimesOut ==
  [][ (ctx # "" /\ pc \in {"do", "body"} /\ next' = next + 1)
        => result'.Results[next].Status = "timeout" ]_vars

\* The results of rs that are not skipped.
RECURSIVE Unskipped(_)
Unskipped(rs) ==
  IF rs = << >> THEN << >>
  ELSE IF Head(rs).Status = "skipped" THEN Unskipped(Tail(rs))
  ELSE << Head(rs) >> \o Unskipped(Tail(rs))

\* C8: a probe without an endpoint has Status skipped and no timing, and the
\* StatusIndex of the run is the one of the run without its skipped probes:
\* a skipped probe only leaves its own slot at skipped.
C8_SkippedChangesNothing ==
  Returned =>
    /\ \A k \in 1..Len(result.Results) :
         opts.Endpoints[result.Results[k].Name] \in {"", NoEntry}
           => /\ result.Results[k].Status = "skipped"
              /\ result.Results[k].TimeMs = 0 /\ result.Results[k].Duration = 0
    /\ buildStatusIndex(result)
         = buildStatusIndex([ result EXCEPT !.Results = Unskipped(@) ])

(***************************************************************************)
(* Properties of Analyze (specification SpecAnalyze).                      *)
(***************************************************************************)
Analyzed == pc = "analyzed"

\* The token identifiers of an Analysis, as returned and as a set.
TokenSeq(a) == [ k \in 1..Len(a.Tokens) |-> a.Tokens[k].Token ]
TokenSet(a) == { a.Tokens[k].Token : k \in 1..Len(a.Tokens) }

\* The RunResult with every field but Results, IPv4 and IPv6 changed.
OtherFieldsChanged(r) ==
  [ r EXCEPT !.RunID = @ + 1, !.DurationMs = @ + 1, !.SlowThresholdMs = @ + 1,
             !.TimeoutMs = @ + 1, !.PacketSizeBytes = @ + 1 ]

\* C3 (as amended): the Analysis is a function of the ordered ProbeResults and
\* of the run-level IPv4/IPv6 observation fields: RunResults that agree on
\* these and differ in the other fields yield the same Analysis.
C3_FunctionOfResultsAndAddresses ==
  Analyzed =>
    /\ Analyze(OtherFieldsChanged(result)) = analysis
    /\ Analyze([ result EXCEPT !.PacketSizeBytes = 1280 ]) = analysis

\* An analysed RunResult with results whose only IPv4 address is the run-level
\* field, which put it in the ipv4_only bucket.
C3_Witness ==
  /\ Analyzed
  /\ Len(result.Results) = 2
  /\ ~result.IPv4.nil
  /\ \A k \in 1..2 : result.Results[k].IP.nil
  /\ "ipv4_only" \in TokenSet(analysis)

\* C3 (as stated): RunResults with the same ordered ProbeResults and different
\* other fields, the run-level IPv4/IPv6 fields included, yield the same
\* Analysis.
C3_FunctionOfResultsOnly ==
  Analyzed =>
    \A i4 \in RunLevelIPv4, i6 \in RunLevelIPv6 :
      Analyze([ OtherFieldsChanged(result) EXCEPT !.IPv4 = i4, !.IPv6 = i6 ]) = analysis

\* The four primary bucket tokens.
BucketNames == {"ipv4_only", "ipv6_only", "avoids_ipv6", "dualstack:safe"}

\* The run has an address: a best-known observation with an address string.
HasAddress(r) ==
  buildStatusIndex(r).ipv4.IP # "" \/ buildStatusIndex(r).ipv6.IP # ""

\* C6: for every RunResult that has at least one address (IPv4 or IPv6),
\* exactly one of ipv4_only, ipv6_only, avoids_ipv6, dualstack:safe is in the
\* Analysis token list.
C6_OneBucket ==
  (Analyzed /\ HasAddress(result)) =>
    Cardinality({ k \in 1..Len(analysis.Tokens) : analysis.Tokens[k].Token \in BucketNames }) = 1

\* An analysed run with both addresses whose dual-stack probe failed over
\* IPv6: the bucket is avoids_ipv6.
C6_Witness ==
  /\ Analyzed
  /\ buildStatusIndex(result).ipv4.IP # ""
  /\ buildStatusIndex(result).ipv6.IP # ""
  /\ "avoids_ipv6" \in TokenSet(analysis)

\* Scenario B: the IPv4-only probe is ok with an IPv4 address, the IPv6-only
\* probe is timeout without observation, the dual-stack probe is answered over
\* IPv4, and the run has no IPv6 observation.
ScenarioB(r) ==
  /\ \A n \in {"ipv4_dns", "ipv6_dns", "dual_stack"} :
       \E k \in 1..Len(r.Results) : r.Results[k].Name = n
  /\ \A k \in 1..Len(r.Results) :
       LET t == r.Results[k]
       IN  /\ t.Name = "ipv4_dns" =>
                t.Status = "ok" /\ ~t.IP.nil /\ t.IP.Type = "ipv4" /\ t.IP.IP # ""
           /\ t.Name = "ipv6_dns" => t.Status = "timeout" /\ t.IP.nil
           /\ t.Name = "dual_stack" => ~t.IP.nil /\ t.IP.Type = "ipv4" /\ t.IP.IP # ""
  /\ r.IPv6.nil

\* C7 (as amended): in Scenario B the Analysis tokens include ipv6:no_address,
\* ipv4_only:ds_timeout and ipv4_only, and scoreStrict = 0, whatever the
\* run-level IPv4 field holds.
C7_ScenarioB ==
  (Analyzed /\ ScenarioB(result)) =>
    \A i4 \in RunLevelIPv4 :
      LET a == Analyze([ result EXCEPT !.IPv4 = i4 ])
      IN  /\ {"ipv6:no_address", "ipv4_only:ds_timeout", "ipv4_only"} \subseteq TokenSet(a)
          /\ a.ScoreStrict = 0

\* An analysed Scenario B run whose dual-stack result comes before the
\* IPv4-only one.
C7_Witness ==
  /\ Analyzed
  /\ ScenarioB(result)
  /\ result.Results[1].Name = "dual_stack"
  /\ analysis.MiniPrimary = "otob"

\* C7 (as stated): in Scenario B the Analysis tokens include ipv4:no_address,
\* ipv4_only:ds_good and ipv4_only, and scoreStrict = 0.
C7_ScenarioBAsStated ==
  (Analyzed /\ ScenarioB(result)) =>
    /\ {"ipv4:no_address", "ipv4_only:ds_good", "ipv4_only"} \subseteq TokenSet(analysis)
    /\ analysis.ScoreStrict = 0

\* A RunResult with zero ProbeResults and no IP observations.
ZeroRun(r) == r.Results = << >> /\ r.IPv4.nil /\ r.IPv6.nil

\* C10 (as amended): for a RunResult with zero ProbeResults and no IP
\* observations the derived token sequence begins with no_address; the list
\* Analyze returns is sorted by token identifier: needs_ipv6, no_address.
C10_NoAddressDerivedFirst ==
  (Analyzed /\ ZeroRun(result)) =>
    /\ tokens # << >> /\ tokens[1] = "no_address"
    /\ TokenSeq(analysis) = << "needs_ipv6", "no_address" >>

\* The analysed RunResult without results and observations.
C10_Witness ==
  /\ Analyzed
  /\ ZeroRun(result)
  /\ Len(analysis.Tokens) = 2
  /\ analysis.MiniPrimary = "xxxx"

\* C10 (as stated): for a RunResult with zero ProbeResults and no IP
\* observations the token list returned by Analyze begins with no_address.
C10_ReturnedListBeginsNoAddress ==
  (Analyzed /\ ZeroRun(result)) =>
    analysis.Tokens # << >> /\ analysis.Tokens[1].Token = "no_address"

(***************************************************************************)
(* Properties of computeScores (specification SpecScores).                 *)
(***************************************************************************)
\* v is the least of the numbers of S.
IsLeast(v, S) == v \in S /\ \A x \in S : v <= x

Contributions(ds, field) == { ds[k][field] : k \in 1..Len(ds) }

HasBlocked(ds) == \E k \in 1..Len(ds) : ds[k].Token = "webfilter:blocked"

\* C9 (as amended): for a non-empty TokenDetail list the two scores are the
\* least transition and the least strict contribution, within 0..10 unless the
\* list holds webfilter:blocked (contributions -1/-1); a score is -1 if and
\* only if the list is empty or holds webfilter:blocked.
C9_ScoresAreMinima ==
  Analyzed =>
    LET ds == analysis.Tokens
    IN  /\ Len(ds) = Len(tokens)
        /\ ds # << >> => /\ IsLeast(analysis.ScoreTransition, Contributions(ds, "ScoreIPv4"))
                         /\ IsLeast(analysis.ScoreStrict, Contributions(ds, "ScoreIPv6"))
        /\ (ds # << >> /\ ~HasBlocked(ds)) => /\ analysis.ScoreTransition \in 0..10
                                              /\ analysis.ScoreStrict \in 0..10
        /\ analysis.ScoreTransition = -1 <=> (ds = << >> \/ HasBlocked(ds))
        /\ analysis.ScoreStrict = -1 <=> (ds = << >> \/ HasBlocked(ds))

\* A scored list of two tokens, webfilter:blocked one of them.
C9_Witness ==
  /\ Analyzed
  /\ Len(analysis.Tokens) = 2
  /\ HasBlocked(analysis.Tokens)
  /\ analysis.ScoreTransition = -1
  /\ analysis.ScoreStrict = -1

\* C9 (as stated): for every non-empty list expanded from tokens of the static
\* table the two scores are the least contributions, each within 0..10; a
\* score is -1 if and only if the list is empty.
C9_ScoresWithinZeroToTen ==
  Analyzed =>
    LET ds == analysis.Tokens
    IN  /\ ds # << >> => /\ IsLeast(analysis.ScoreTransition, Contributions(ds, "ScoreIPv4"))
                         /\ IsLeast(analysis.ScoreStrict, Contributions(ds, "ScoreIPv6"))
                         /\ analysis.ScoreTransition \in 0..10
                         /\ analysis.ScoreStrict \in 0..10
        /\ analysis.ScoreTransition = -1 <=> ds = << >>
        /\ analysis.ScoreStrict = -1 <=> ds = << >>


\* What the six rules before the fallback produce for a RunResult.
RuleTokens(r) ==
  LET st == buildStatusIndex(r)
  IN  AddressTokens(st) \o BucketTokens(st) \o ResolverTokens(st)
      \o MTUTokens(st) \o NeedsTokens(st) \o TunnelTokens(st)

\* C11: the derived token list is never empty and Analyze returns at least one
\* TokenDetail; the fallback token (the primary compact status string) is
\* among the derived tokens if and only if no other rule produced a token.
C11_NeverEmpty ==
  Analyzed =>
    /\ tokens # << >>
    /\ Len(analysis.Tokens) >= 1
    /\ (\E k \in 1..Len(tokens) : tokens[k] = analysis.MiniPrimary)
         <=> RuleTokens(result) = << >>

\* An analysed run with results for which a single rule produced a token.
C11_Witness ==
  /\ Analyzed
  /\ result.Results # << >>
  /\ Len(RuleTokens(result)) = 1
  /\ Len(analysis.Tokens) = 1


\* Scenario A: each of the eight probes has one result, every result is ok,
\* ipv4_dns carries an IPv4 address, ipv6_dns and dual_stack carry an IPv6
\* address that is no tunnel.
ScenarioA(r) ==
  /\ Len(r.Results) = 8
  /\ \A n \in ProbeNames : \E k \in 1..Len(r.Results) : r.Results[k].Name = n
  /\ \A k \in 1..Len(r.Results) :
       LET t == r.Results[k]
       IN  /\ t.Status = "ok"
           /\ t.Name = "ipv4_dns" => ~t.IP.nil /\ t.IP.Type = "ipv4" /\ t.IP.IP # ""
           /\ t.Name \in {"ipv6_dns", "dual_stack"} =>
                ~t.IP.nil /\ t.IP.Type = "ipv6" /\ t.IP.IP # "" /\ t.IP.Subtype = ""

\* C12: in Scenario A the Analysis tokens include dualstack:safe and v6ns:ok,
\* and scoreTransition = scoreStrict = 10.
C12_ScenarioA ==
  Analyzed /\ ScenarioA(result) =>
    /\ "dualstack:safe" \in TokenSet(analysis)
    /\ "v6ns:ok" \in TokenSet(analysis)
    /\ analysis.ScoreTransition = 10
    /\ analysis.ScoreStrict = 10

C12_Witness ==
  /\ Analyzed
  /\ ScenarioA(result)
  /\ analysis.MiniPrimary = "oobo"
  /\ TokenSeq(analysis) = << "dualstack:safe", "v6ns:ok" >>


\* The colour names of the table's colour codes.
ColorPairs ==
  { << intGreen, "GREEN" >>, << intRed, "RED" >>, << intBlue, "BLUE" >>,
    << intOrange, "ORANGE" >> }

\* d is what the static tables say of token t.
TableDetail(d, t) ==
  /\ d.ScoreIPv4 = scoreTable[t][1]
  /\ d.ScoreIPv6 = scoreTable[t][2]
  /\ << scoreTable[t][3], d.Color >> \in ColorPairs
  /\ d.Message = (IF t \in DOMAIN messageTable THEN messageTable[t] ELSE "")
  /\ d.MoreInfo = (IF t \in DOMAIN moreInfoTable THEN moreInfoTable[t] ELSE "")

\* d is the neutral, flagged entry for token t.
NeutralDetail(d, t) ==
  /\ d.ScoreIPv4 = 10
  /\ d.ScoreIPv6 = 10
  /\ d.Color = "YELLOW"
  /\ d.Message = "(unknown result code: " \o t \o ")"
  /\ d.MoreInfo = ""

\* C13: expanding a token list yields one detail per token; a token of the
\* static table has the table's transition score, strict score, colour,
\* message and reference link; a token absent from the table has both
\* contributions 10, colour YELLOW and a message naming the token, and the
\* other tokens of the list are expanded as the table says.
C13_ExpansionNeverFails ==
  Analyzed =>
    /\ Len(analysis.Tokens) = Len(tokens)
    /\ \A i \in 1..Len(tokens) :
         \E k \in 1..Len(analysis.Tokens) :
           LET d == analysis.Tokens[k]
           IN  /\ d.Token = tokens[i]
               /\ \A m \in 1..Len(analysis.Tokens) : analysis.Tokens[m].Token = tokens[i] => m = k
               /\ IF tokens[i] \in DOMAIN scoreTable
                    THEN TableDetail(d, tokens[i]) ELSE NeutralDetail(d, tokens[i])

\* A list holding a code outside the table next to one of the table.
C13_Witness ==
  /\ Analyzed
  /\ tokens = << UnknownToken, "avoids_ipv6" >>
  /\ Len(analysis.Tokens) = 2
  /\ analysis.Tokens[2].Message = "(unknown result code: xxxx)"


\* The token sequence deriveTokens returns for a RunResult, before dedupe.
RawTokens(r) ==
  LET st == buildStatusIndex(r)
  IN  deriveTokens(r, st, miniPrimary(st), miniSecondary(st))

\* C14: the TokenDetail list returned by Analyze is in ascending order of
\* token identifier and holds exactly the tokens of the deduplicated derived
\* sequence, each once, whatever the derivation order was.
C14_SortedPermutation ==
  Analyzed =>
    LET seq == TokenSeq(analysis)
    IN  /\ \A i, j \in 1..Len(seq) : i < j => StringLess(seq[i], seq[j])
        /\ Len(seq) = Len(tokens)
        /\ \A i, j \in 1..Len(tokens) : tokens[i] = tokens[j] => i = j
        /\ Range(seq) = Range(tokens)
        /\ Range(tokens) = Range(RawTokens(result))

\* Three tokens derived in an order that is not the ascending one.
C14_Witness ==
  /\ Analyzed
  /\ Len(tokens) = 3
  /\ tokens[1] = "ipv6:no_address"
  /\ tokens[2] = "ipv4_only:ds_good"
  /\ tokens[3] = "ipv4_only"
  /\ TokenSeq(analysis) = << "ipv4_only", "ipv4_only:ds_good", "ipv6:no_address" >>


(***************************************************************************)
(* Claims under SpecRuns.                                                  *)
(***************************************************************************)
\* The timeout and the slow threshold a call with request rq is entitled to,
\* on a Runner configured with CfgTimeout and CfgSlowThreshold.
OwnTimeout(rq) == IF rq.Timeout > 0 THEN rq.Timeout ELSE CfgTimeout
OwnSlowThreshold(rq) == IF rq.SlowThreshold > 0 THEN rq.SlowThreshold ELSE CfgSlowThreshold

\* Every probe result of call c was classified with the call's own timeout
\* and slow threshold.
ClassifiedWithOwn(c) ==
  /\ c.result.TimeoutMs = Milliseconds(OwnTimeout(c.req))
  /\ c.result.SlowThresholdMs = Milliseconds(OwnSlowThreshold(c.req))
  /\ \A k \in 1..Len(c.result.Results) :
       LET t == c.result.Results[k]
       IN  /\ t.Status \in {StatusOK, StatusSlow, StatusTimeout}
           /\ t.Duration <= OwnTimeout(c.req)
           /\ t.Status = StatusTimeout <=> t.Duration = OwnTimeout(c.req)
           /\ t.Status = StatusSlow <=>
                (t.Duration < OwnTimeout(c.req) /\ t.Duration > OwnSlowThreshold(c.req))
           /\ t.Status = StatusOK <=>
                (t.Duration < OwnTimeout(c.req) /\ t.Duration <= OwnSlowThreshold(c.req))

\* C15: Run never writes the Runner's stored options, endpoint map or HTTP
\* client; in every interleaving of concurrent calls and every succession of
\* calls on one Runner each call classifies its probes with its own effective
\* timeout and slow threshold, the configured ones where it has no override.
C15_NoSharedMutableState ==
  /\ options = NominalOptions
  /\ client = NewRunnerClient(NominalOptions)
  /\ \A i \in RunIds : runs[i].pc # "idle" => ClassifiedWithOwn(runs[i])

\* Caller a's second call, without overrides, has classified a probe of
\* duration CfgSlowThreshold as ok while caller b's concurrent call, whose
\* threshold override is lower, classified the same duration as slow.
C15_Witness ==
  /\ pc = "runs"
  /\ runs["a"].begun = 2
  /\ runs["a"].pc = "loop"
  /\ runs["a"].req.Timeout = 0 /\ runs["a"].req.SlowThreshold = 0
  /\ runs["b"].pc = "loop"
  /\ runs["b"].req.SlowThreshold = 1
  /\ Len(runs["a"].result.Results) = 1
  /\ Len(runs["b"].result.Results) = 1
  /\ runs["a"].result.Results[1].Duration = CfgSlowThreshold
  /\ runs["b"].result.Results[1].Duration = CfgSlowThreshold
  /\ runs["a"].result.Results[1].Status = StatusOK
  /\ runs["b"].result.Results[1].Status = StatusSlow


\* The character of each Status in the compact summaries.
CharOf ==
  [ s \in Statuses |->
      CASE s = "ok" -> "o" [] s = "slow" -> "s" [] s = "timeout" -> "t"
        [] s = "skipped" -> "x" [] OTHER -> "b" ]

\* C16: the primary status string has four characters, for the IPv4-only,
\* IPv6-only, dual-stack-as-IPv4 and dual-stack-as-IPv6 slots in that order,
\* the secondary string two, for the MTU and nameserver slots; each is o, s, t,
\* b (bad or error) or x by the slot's status, and every slot of the status
\* index holds one of the six Status values.
C16_MiniStrings ==
  Analyzed =>
    LET st == buildStatusIndex(result)
    IN  /\ \A slot \in {"a", "aaaa", "ds4", "ds6", "v6mtu", "dsmtu", "v6ns"} :
             st[slot] \in Statuses
        /\ Len(analysis.MiniPrimary) = 4
        /\ Len(analysis.MiniSecondary) = 2
        /\ analysis.MiniPrimary =
             CharOf[st.a] \o CharOf[st.aaaa] \o CharOf[st.ds4] \o CharOf[st.ds6]
        /\ analysis.MiniSecondary = CharOf[st.v6mtu] \o CharOf[st.v6ns]

\* IPv4-only ok, no IPv6-only result, a dual-stack timeout over IPv6 and a
\* nameserver error: primary oxbt, secondary xb.
C16_Witness ==
  /\ Analyzed
  /\ Len(result.Results) = 3
  /\ result.Results[2].Name = "dual_stack"
  /\ result.Results[3].Status = "error"
  /\ analysis.MiniPrimary = "oxbt"
  /\ analysis.MiniSecondary = "xb"


\* The status index after the walk over the first k results of r.
IndexAfter(r, k) == IndexResults(EmptyIndex, SubSeq(r.Results, 1, k))

\* The observed address family of result t is IPv6.
FamilyIPv6(t) == ~t.IP.nil /\ t.IP.Type \in {"ipv6", "IPv6", "IPV6"}

\* C17: a dual-stack result is attributed to the IPv6 dual-stack slot when
\* its observed address family is IPv6 and to the IPv4 dual-stack slot in
\* every other case, no observation included; the other family's slot becomes
\* bad unless an earlier result had set it, and then keeps its earlier value.
C17_DualStackAttribution ==
  Analyzed =>
    \A k \in 1..Len(result.Results) :
      result.Results[k].Name = "dual_stack" =>
        LET t == result.Results[k]
            before == IndexAfter(result, k - 1)
            after == IndexAfter(result, k)
        IN  IF FamilyIPv6(t)
              THEN /\ after.ds6 = t.Status
                   /\ after.ds4 = (IF before.ds4 = "" THEN "bad" ELSE before.ds4)
              ELSE /\ after.ds4 = t.Status
                   /\ after.ds6 = (IF before.ds6 = "" THEN "bad" ELSE before.ds6)

\* Two dual-stack results: the first ok over IPv6, the second a timeout with
\* no observation; the IPv6 slot keeps ok, the IPv4 slot holds the timeout.
C17_Witness ==
  /\ Analyzed
  /\ Len(result.Results) = 2
  /\ result.Results[1].Name = "dual_stack" /\ FamilyIPv6(result.Results[1])
  /\ result.Results[1].Status = "ok"
  /\ result.Results[2].Name = "dual_stack" /\ result.Results[2].IP.nil
  /\ result.Results[2].Status = "timeout"
  /\ analysis.MiniPrimary = "xxto"


\* Result t supplies an IPv4 (resp. IPv6) observation to the status index.
Supplies4(t) == t.Name \in {"ipv4_dns", "dual_stack"} /\ ~t.IP.nil /\ t.IP.Type = "ipv4"
Supplies6(t) ==
  \/ t.Name = "ipv6_dns" /\ ~t.IP.nil /\ t.IP.Type = "ipv6"
  \/ t.Name = "dual_stack" /\ FamilyIPv6(t)

\* No probe has two results in r.
OnePerProbe(r) ==
  \A i, j \in 1..Len(r.Results) : r.Results[i].Name = r.Results[j].Name => i = j

\* C18 (as amended): the status index's IPv4 (resp. IPv6) observation is that
\* of the first result, in the order of the Results list, among the IPv4-only
\* (resp. IPv6-only) and dual-stack results that carry one of that family; so
\* a dual-stack observation becomes the index's only if no earlier result
\* supplied one, and the dedicated probe's observation is the index's when no
\* dual-stack result carrying the family stands before it.  With no such
\* result the index holds the run summary's address.
C18_FirstObservationWins ==
  Analyzed =>
    LET st == buildStatusIndex(result)
        rs == result.Results
    IN  /\ \A k \in 1..Len(rs) :
             /\ (Supplies4(rs[k]) /\ \A j \in 1..(k - 1) : ~Supplies4(rs[j])) =>
                  st.ipv4 = rs[k].IP
             /\ (Supplies6(rs[k]) /\ \A j \in 1..(k - 1) : ~Supplies6(rs[j])) =>
                  st.ipv6 = rs[k].IP
        /\ (\A k \in 1..Len(rs) : ~Supplies4(rs[k])) => st.ipv4 = result.IPv4
        /\ (\A k \in 1..Len(rs) : ~Supplies6(rs[k])) => st.ipv6 = result.IPv6

\* The dual-stack result, carrying an IPv4 address, stands before the
\* IPv4-only result, which carries another: the index holds the dual-stack one.
C18_Witness ==
  /\ Analyzed
  /\ OnePerProbe(result)
  /\ Len(result.Results) = 2
  /\ result.Results[1].Name = "dual_stack" /\ result.Results[1].IP.IP = Addr4b
  /\ result.Results[2].Name = "ipv4_dns" /\ result.Results[2].IP.IP = Addr4a
  /\ buildStatusIndex(result).ipv4.IP = Addr4b

\* C18 (as stated): whenever the dedicated single-family probe carries an
\* observation of its family, the status index holds that observation,
\* wherever the dual-stack result stands in the Results list.
C18_DedicatedAlwaysWins ==
  (Analyzed /\ OnePerProbe(result)) =>
    LET st == buildStatusIndex(result)
    IN  \A k \in 1..Len(result.Results) :
          LET t == result.Results[k]
          IN  /\ (t.Name = "ipv4_dns" /\ ~t.IP.nil /\ t.IP.Type = "ipv4") => st.ipv4 = t.IP
              /\ (t.Name = "ipv6_dns" /\ ~t.IP.nil /\ t.IP.Type = "ipv6") => st.ipv6 = t.IP


\* The status index of r holds an IPv4 (resp. IPv6) address.
ObservedIPv4(r) == LET st == buildStatusIndex(r) IN ~st.ipv4.nil /\ st.ipv4.IP # ""
ObservedIPv6(r) == LET st == buildStatusIndex(r) IN ~st.ipv6.nil /\ st.ipv6.IP # ""

AddressTokenNames == {"no_address", "ipv4:no_address", "ipv6:no_address"}

\* C19: the derived tokens contain no_address exactly when neither an IPv4
\* nor an IPv6 address is observed, ipv4:no_address exactly when only the IPv4
\* address is missing, ipv6:no_address exactly when only the IPv6 address is
\* missing, none of the three when both are observed, and never two of them.
C19_AddressPresence ==
  Analyzed =>
    LET o4 == ObservedIPv4(result)
        o6 == ObservedIPv6(result)
        derived == Range(tokens) \cap AddressTokenNames
    IN  /\ "no_address" \in derived <=> (~o4 /\ ~o6)
        /\ "ipv4:no_address" \in derived <=> (~o4 /\ o6)
        /\ "ipv6:no_address" \in derived <=> (o4 /\ ~o6)
        /\ (o4 /\ o6) => derived = {}
        /\ Cardinality(derived) <= 1
        /\ TokenSet(analysis) \cap AddressTokenNames = derived

\* Only the IPv4 address is missing: an IPv6-only result carries an address,
\* an IPv4-only result names its family without one.
C19_Witness ==
  /\ Analyzed
  /\ Len(result.Results) = 2
  /\ result.Results[1].Name = "ipv6_dns" /\ result.Results[1].IP.IP = Addr6a
  /\ result.Results[2].Name = "ipv4_dns" /\ ~result.Results[2].IP.nil
  /\ result.Results[2].IP.IP = ""
  /\ tokens[1] = "ipv4:no_address"


RefinementNames == {"ipv4_only:ds_slow", "ipv4_only:ds_timeout", "ipv4_only:ds_good"}

\* The derived sequence holds exactly one refinement token, `refined`,
\* immediately followed by ipv4_only.
RefinedBy(seq, refined) ==
  /\ Range(seq) \cap RefinementNames = {refined}
  /\ \E k \in 1..(Len(seq) - 1) :
       /\ seq[k] = refined
       /\ seq[k + 1] = "ipv4_only"
       /\ \A m \in 1..Len(seq) : seq[m] = refined => m = k

\* C20 (as amended): when an IPv4 address is observed and no IPv6 address is,
\* the derived sequence contains exactly one refinement token chosen from the
\* dual-stack-as-IPv6 slot: ipv4_only:ds_slow if the slot is slow,
\* ipv4_only:ds_timeout if it is timeout, bad or error, ipv4_only:ds_good if
\* it is ok or skipped; ipv4_only follows it immediately.
C20_IPv4OnlyRefinement ==
  (Analyzed /\ ObservedIPv4(result) /\ ~ObservedIPv6(result)) =>
    LET ds6 == buildStatusIndex(result).ds6
    IN  RefinedBy(tokens,
          CASE ds6 = "slow" -> "ipv4_only:ds_slow"
            [] ds6 \in {"timeout", "bad", "error"} -> "ipv4_only:ds_timeout"
            [] ds6 \in {"ok", "skipped"} -> "ipv4_only:ds_good")

\* An IPv4 address and a dual-stack result that errored with an observation
\* naming IPv6 without an address: the slot is error, the token ds_timeout.
C20_Witness ==
  /\ Analyzed
  /\ ObservedIPv4(result)
  /\ ~ObservedIPv6(result)
  /\ buildStatusIndex(result).ds6 = "error"
  /\ \E k \in 1..Len(tokens) : tokens[k] = "ipv4_only:ds_timeout"

\* C20 (as stated): the refinement token is ipv4_only:ds_slow if the slot is
\* slow, ipv4_only:ds_timeout if it is timeout or bad, and ipv4_only:ds_good
\* for every other status (ok, skipped, error), followed by ipv4_only.
C20_ErrorRefinesToGood ==
  (Analyzed /\ ObservedIPv4(result) /\ ~ObservedIPv6(result)) =>
    LET ds6 == buildStatusIndex(result).ds6
    IN  RefinedBy(tokens,
          CASE ds6 = "slow" -> "ipv4_only:ds_slow"
            [] ds6 \in {"timeout", "bad"} -> "ipv4_only:ds_timeout"
            [] OTHER -> "ipv4_only:ds_good")


\* C21 (as amended): when both an IPv4 and an IPv6 address are observed,
\* avoids_ipv6 is emitted if the dual-stack-as-IPv6 slot is bad, timeout or
\* error, and dualstack:safe if it is ok, slow or skipped; never both.
C21_BothFamiliesBucket ==
  (Analyzed /\ ObservedIPv4(result) /\ ObservedIPv6(result)) =>
    LET ds6 == buildStatusIndex(result).ds6
    IN  /\ "avoids_ipv6" \in Range(tokens) <=> ds6 \in {"bad", "timeout", "error"}
        /\ "dualstack:safe" \in Range(tokens) <=> ds6 \in {"ok", "slow", "skipped"}
        /\ "avoids_ipv6" \in TokenSet(analysis) <=> "avoids_ipv6" \in Range(tokens)
        /\ "dualstack:safe" \in TokenSet(analysis) <=> "dualstack:safe" \in Range(tokens)

\* Both addresses and a dual-stack result that errored with an IPv6
\* observation: the slot is error, the token avoids_ipv6.
C21_Witness ==
  /\ Analyzed
  /\ ObservedIPv4(result)
  /\ ObservedIPv6(result)
  /\ buildStatusIndex(result).ds6 = "error"
  /\ "avoids_ipv6" \in TokenSet(analysis)

\* C21 (as stated): when both addresses are observed, avoids_ipv6 is emitted
\* if the dual-stack-as-IPv6 slot is bad or timeout, and dualstack:safe for
\* every other status of that slot (ok, slow, skipped, error).
C21_ErrorIsSafe ==
  (Analyzed /\ ObservedIPv4(result) /\ ObservedIPv6(result)) =>
    LET ds6 == buildStatusIndex(result).ds6
    IN  /\ "avoids_ipv6" \in Range(tokens) <=> ds6 \in {"bad", "timeout"}
        /\ "dualstack:safe" \in Range(tokens) <=> ds6 \in {"ok", "slow", "skipped", "error"}


\* The status index's IPv6 observation of r is a Teredo or 6to4 tunnel.
ObservedTunnel(r) ==
  LET ip == buildStatusIndex(r).ipv6
  IN  ~ip.nil /\ ip.Subtype \in {"Teredo", "teredo", "TEREDO", "6to4", "6TO4"}

\* C22 (as amended): needs_ipv6 is emitted exactly when (no IPv6 address is
\* observed, or the observed IPv6 address is a Teredo/6to4 tunnel) and the
\* dual-stack-MTU slot is ok, slow or skipped; dualstack:unsafe is emitted
\* exactly when an IPv6 address that is no tunnel is observed and the
\* dual-stack-MTU slot is bad, timeout or error; with no IPv6 address, or a
\* tunnel, and such a slot neither token is emitted.
C22_NeedsOrUnsafe ==
  Analyzed =>
    LET dsmtu == buildStatusIndex(result).dsmtu
        lacking == ~ObservedIPv6(result) \/ ObservedTunnel(result)
    IN  /\ "needs_ipv6" \in Range(tokens) <=>
             (lacking /\ dsmtu \in {"ok", "slow", "skipped"})
        /\ "dualstack:unsafe" \in Range(tokens) <=>
             (~lacking /\ dsmtu \in {"bad", "timeout", "error"})
        /\ "needs_ipv6" \in TokenSet(analysis) <=> "needs_ipv6" \in Range(tokens)
        /\ "dualstack:unsafe" \in TokenSet(analysis) <=> "dualstack:unsafe" \in Range(tokens)

\* No IPv6 address and a dual-stack-MTU probe that timed out: neither token.
C22_Witness ==
  /\ Analyzed
  /\ ObservedIPv4(result)
  /\ ~ObservedIPv6(result)
  /\ buildStatusIndex(result).dsmtu = "timeout"
  /\ "needs_ipv6" \notin TokenSet(analysis)
  /\ "dualstack:unsafe" \notin TokenSet(analysis)

\* C22 (as stated): needs_ipv6 is emitted exactly when (no IPv6 address is
\* observed, or it is a tunnel) and the dual-stack-MTU slot is ok, slow or
\* skipped; in every other case in which the dual-stack-MTU slot is bad,
\* timeout or error, dualstack:unsafe is emitted.
C22_UnsafeInEveryOtherCase ==
  Analyzed =>
    LET dsmtu == buildStatusIndex(result).dsmtu
        lacking == ~ObservedIPv6(result) \/ ObservedTunnel(result)
        needs == lacking /\ dsmtu \in {"ok", "slow", "skipped"}
    IN  /\ "needs_ipv6" \in Range(tokens) <=> needs
        /\ (~needs /\ dsmtu \in {"bad", "timeout", "error"}) =>
             "dualstack:unsafe" \in Range(tokens)


NameserverTokenNames == {"v6ns:ok", "v6ns:bad"}

\* C23: a nameserver token is emitted if and only if at least one dual-stack
\* slot is ok or slow and the nameserver slot is not skipped; it is v6ns:ok
\* when the nameserver slot is ok or slow and v6ns:bad otherwise, and the two
\* never appear together.
C23_NameserverHealth ==
  Analyzed =>
    LET st == buildStatusIndex(result)
        due == (st.ds4 \in {"ok", "slow"} \/ st.ds6 \in {"ok", "slow"}) /\ st.v6ns # "skipped"
        derived == Range(tokens) \cap NameserverTokenNames
    IN  /\ derived # {} <=> due
        /\ due => derived = (IF st.v6ns \in {"ok", "slow"} THEN {"v6ns:ok"} ELSE {"v6ns:bad"})
        /\ Cardinality(derived) <= 1
        /\ TokenSet(analysis) \cap NameserverTokenNames = derived

\* A dual-stack result that is slow and a nameserver probe that errored.
C23_Witness ==
  /\ Analyzed
  /\ buildStatusIndex(result).ds4 = "slow"
  /\ buildStatusIndex(result).ds6 = "bad"
  /\ buildStatusIndex(result).v6ns = "error"
  /\ "v6ns:bad" \in TokenSet(analysis)


\* C24: the token IPv6 MTU is emitted if and only if the IPv6-only-DNS slot is
\* ok or slow and at least one of the IPv6-MTU slot and the dual-stack-MTU
\* slot is bad, timeout or error; a skipped MTU slot never triggers it.
C24_MTUProblem ==
  Analyzed =>
    LET st == buildStatusIndex(result)
        unhealthy == {"bad", "timeout", "error"}
    IN  /\ "IPv6 MTU" \in Range(tokens) <=>
             (st.aaaa \in {"ok", "slow"} /\ (st.v6mtu \in unhealthy \/ st.dsmtu \in unhealthy))
        /\ (st.v6mtu = "skipped" /\ st.dsmtu \in {"ok", "slow", "skipped"}) =>
             "IPv6 MTU" \notin Range(tokens)
        /\ "IPv6 MTU" \in TokenSet(analysis) <=> "IPv6 MTU" \in Range(tokens)

\* The IPv6-only probe slow, no IPv6-MTU result, the dual-stack-MTU probe in
\* error: the token is emitted on the dual-stack-MTU slot alone.
C24_Witness ==
  /\ Analyzed
  /\ buildStatusIndex(result).aaaa = "slow"
  /\ buildStatusIndex(result).v6mtu = "skipped"
  /\ buildStatusIndex(result).dsmtu = "error"
  /\ "IPv6 MTU" \in TokenSet(analysis)


\* C25: teredo is emitted if and only if the status index's IPv6 observation
\* has the tunnel subtype Teredo, 6to4 if and only if it has 6to4, both in any
\* letter case; no tunnel token is emitted without an IPv6 observation, and
\* the two never appear together.
C25_TunnelDetection ==
  Analyzed =>
    LET ip == buildStatusIndex(result).ipv6
    IN  /\ "teredo" \in Range(tokens) <=>
             (~ip.nil /\ ip.Subtype \in {"Teredo", "teredo", "TEREDO"})
        /\ "6to4" \in Range(tokens) <=> (~ip.nil /\ ip.Subtype \in {"6to4", "6TO4"})
        /\ ip.nil => ("teredo" \notin Range(tokens) /\ "6to4" \notin Range(tokens))
        /\ ~("teredo" \in Range(tokens) /\ "6to4" \in Range(tokens))
        /\ TokenSet(analysis) \cap {"teredo", "6to4"} = Range(tokens) \cap {"teredo", "6to4"}

\* An IPv6 observation whose subtype is written TEREDO, next to probe results.
C25_Witness ==
  /\ Analyzed
  /\ result.Results # << >>
  /\ buildStatusIndex(result).ipv6.Subtype = "TEREDO"
  /\ "teredo" \in TokenSet(analysis)
  /\ "6to4" \notin TokenSet(analysis)


\* Every probe of r failed and none carries an observation, nor does the run.
AllFailed(r) ==
  /\ r.Results # << >>
  /\ \A k \in 1..Len(r.Results) :
       r.Results[k].Status \in {"bad", "timeout", "error"} /\ r.Results[k].IP.nil
  /\ r.IPv4.nil /\ r.IPv6.nil

HasDualStackMTU(r) == \E k \in 1..Len(r.Results) : r.Results[k].Name = "dual_stack_mtu"

\* C26 (as amended): a run in which every probe fails and no probe carries an
\* observation yields scoreTransition = scoreStrict = 10 and no primary-bucket
\* or dualstack:unsafe token; it yields exactly one token, no_address, when
\* the dual-stack-MTU probe is among its probes, and no_address with
\* needs_ipv6 when it is not (the slot is then skipped).
C26_TotalFailure ==
  (Analyzed /\ AllFailed(result)) =>
    /\ TokenSeq(analysis) = (IF HasDualStackMTU(result) THEN << "no_address" >>
                             ELSE << "needs_ipv6", "no_address" >>)
    /\ analysis.ScoreTransition = 10
    /\ analysis.ScoreStrict = 10

\* The run of the fixed eight in which every probe failed.
C26_Witness ==
  /\ Analyzed
  /\ AllFailed(result)
  /\ Len(result.Results) = 8
  /\ analysis.MiniPrimary = "tbbb"
  /\ TokenSeq(analysis) = << "no_address" >>
  /\ analysis.ScoreStrict = 10

\* C26 (as stated): a run in which every probe fails and no probe carries an
\* observation yields exactly one token, no_address, and scoreTransition =
\* scoreStrict = 10, with no primary-bucket, needs_ipv6 or dualstack:unsafe
\* token.
C26_ExactlyNoAddress ==
  (Analyzed /\ AllFailed(result)) =>
    /\ TokenSeq(analysis) = << "no_address" >>
    /\ analysis.ScoreTransition = 10
    /\ analysis.ScoreStrict = 10


\* C27: for every RunResult every token of the Analysis is a key of the static
\* score table and occurs once; the fallback rule and the unknown-token
\* expansion are never taken and deduplication removes nothing, so both scores
\* lie in 0..10 and are never -1.
C27_TokensOfTheTable ==
  Analyzed =>
    LET seq == TokenSeq(analysis)
    IN  /\ \A k \in 1..Len(seq) : seq[k] \in DOMAIN scoreTable
        /\ \A i, j \in 1..Len(seq) : seq[i] = seq[j] => i = j
        /\ RuleTokens(result) # << >>
        /\ RawTokens(result) = RuleTokens(result)
        /\ tokens = RawTokens(result)
        /\ \A k \in 1..Len(seq) :
             analysis.Tokens[k].Message # "(unknown result code: " \o seq[k] \o ")"
        /\ analysis.ScoreTransition \in 0..10
        /\ analysis.ScoreStrict \in 0..10

\* A run of six rules' worth of tokens: an IPv6-only Teredo host with an MTU
\* problem and a bad nameserver.
C27_Witness ==
  /\ Analyzed
  /\ Len(analysis.Tokens) >= 5
  /\ "teredo" \in TokenSet(analysis)
  /\ "IPv6 MTU" \in TokenSet(analysis)
  /\ analysis.ScoreTransition = 0

====
